---- MODULE Spec2Model ----
(***************************************************************************)
(* DevClaw: workflow graph, project state store (projects.json),           *)
(* completion pipeline, scheduler tick, pickup tool, health reconciler and *)
(* heartbeat sweeps, as a state machine over the store and the tracker.    *)
(*                                                                         *)
(* Role ids: the workflow graph spells the two worker roles "developer"    *)
(* and "tester", the worker map and the tools spell them "dev" and "qa"    *)
(* (ROLE_ALIASES, projects.ts:113 and :128, maps one spelling to the       *)
(* other).  The model uses one id per role: "dev" and "qa".                *)
(***************************************************************************)
EXTENDS Integers, Sequences, FiniteSets, TLC

VARIABLES
    workers,   \* projects.json: project -> role -> WorkerState
    label,     \* issue tracker: task -> its state label
    open,      \* issue tracker: task -> open (TRUE) or closed (FALSE)
    fin,       \* the completion call in flight (between its awaits)
    pk,        \* the task_pickup call in flight (between its awaits)
    last,      \* what the most recently finished call returned or threw
    cfg,       \* configuration: roleExecution per project, projectExecution
    disk,      \* projects.json as files: directory, inodes, writeProjects calls in flight
    sweeps,    \* the heartbeat service's sweeps in progress
    scan       \* the health scan in flight (between its awaits)

vars == <<workers, label, open, fin, pk, last, cfg, disk, sweeps, scan>>

-----------------------------------------------------------------------------
(* Universe of the model *)

Projects == {"p1", "p2"}
Roles == <<"dev", "qa">>
RoleSet == {"dev", "qa"}
NumTasks == 3
Tasks == 1..NumTasks
NoIssue == 0

\* The last task belongs to p2, the others to p1.
ProjectOf(t) == IF t < NumTasks THEN "p1" ELSE "p2"
TasksOf(p) == {t \in Tasks : ProjectOf(t) = p}

DEV_LEVELS == {"junior", "medior", "senior"}
QA_LEVELS == {"reviewer", "tester"}
Levels == DEV_LEVELS \cup QA_LEVELS
isDevLevel(l) == l \in DEV_LEVELS
NoLevel == "none"
NoSession == <<>>
NoTime == "none"

\* F applied to the value of v, which is evaluated once
Strict(v, F(_)) == CHOOSE r \in {F(w) : w \in {v}} : TRUE

-----------------------------------------------------------------------------
(* Workflow graph *)

NoPriority == -1
NoRole == "none"

St(key, type, role, lbl, priority, on) ==
    [key |-> key, type |-> type, role |-> role, label |-> lbl,
     priority |-> priority, on |-> on]
Tr(event, target, actions) ==
    [event |-> event, target |-> target, actions |-> actions]

DEFAULT_WORKFLOW == <<
    St("planning", "hold", NoRole, "Planning", NoPriority,
       {Tr("APPROVE", "todo", {})}),
    St("todo", "queue", "dev", "To Do", 1,
       {Tr("PICKUP", "doing", {})}),
    St("doing", "active", "dev", "Doing", NoPriority,
       {Tr("COMPLETE", "toTest", {"gitPull", "detectPr"}),
        Tr("BLOCKED", "refining", {})}),
    St("toTest", "queue", "qa", "To Test", 2,
       {Tr("PICKUP", "testing", {})}),
    St("testing", "active", "qa", "Testing", NoPriority,
       {Tr("PASS", "done", {"closeIssue"}),
        Tr("FAIL", "toImprove", {"reopenIssue"}),
        Tr("REFINE", "refining", {}),
        Tr("BLOCKED", "refining", {})}),
    St("toImprove", "queue", "dev", "To Improve", 3,
       {Tr("PICKUP", "doing", {})}),
    St("refining", "hold", NoRole, "Refining", NoPriority,
       {Tr("APPROVE", "todo", {})}),
    St("done", "terminal", NoRole, "Done", NoPriority, {}),
    St("toDesign", "queue", "architect", "To Design", 1,
       {Tr("PICKUP", "designing", {})}),
    St("designing", "active", "architect", "Designing", NoPriority,
       {Tr("COMPLETE", "planning", {}),
        Tr("BLOCKED", "refining", {})})
>>

Labels == {DEFAULT_WORKFLOW[i].label : i \in 1..Len(DEFAULT_WORKFLOW)}

\* A missing priority ranked above every declared one
Prio_MissingHigh(s) == IF s.priority = NoPriority THEN 9 ELSE s.priority

\* b.priority ?? 0
Prio(s) == IF s.priority = NoPriority THEN 0 ELSE s.priority

\* Object.values(states).filter(queue of role): indices in declaration order
QueueIdx(wf, role) ==
    {i \in 1..Len(wf) : wf[i].type = "queue" /\ wf[i].role = role}

\* The sort comparing the other way round: lowest priority first
RankOf_Ascending(wf, S, i) ==
    Cardinality({j \in S : Prio(wf[j]) < Prio(wf[i])
                        \/ (Prio(wf[j]) = Prio(wf[i]) /\ j < i)}) + 1

\* Position of state i after the stable sort by descending priority
RankOf(wf, S, i) ==
    Cardinality({j \in S : Prio(wf[j]) > Prio(wf[i])
                        \/ (Prio(wf[j]) = Prio(wf[i]) /\ j < i)}) + 1

getQueueLabels(wf, role) ==
    LET S == QueueIdx(wf, role)
    IN  [k \in 1..Cardinality(S) |->
            wf[CHOOSE i \in S : RankOf(wf, S, i) = k].label]

Throws == "<throws>"

ActiveIdx(wf, role) ==
    {i \in 1..Len(wf) : wf[i].type = "active" /\ wf[i].role = role}

Min(S) == CHOOSE x \in S : \A y \in S : x <= y

\* Object.values(states).find(active of role); throws when there is none
getActiveLabel(wf, role) ==
    IF ActiveIdx(wf, role) = {} THEN Throws
    ELSE wf[Min(ActiveIdx(wf, role))].label

NoKey == "<null>"

findStateKeyByLabel(wf, lbl) ==
    LET S == {i \in 1..Len(wf) : wf[i].label = lbl}
    IN  IF S = {} THEN NoKey ELSE wf[Min(S)].key

\* workflow.states[key]; HasState is FALSE where the lookup is undefined
HasState(wf, key) == \E i \in 1..Len(wf) : wf[i].key = key
StateByKey(wf, key) == wf[Min({i \in 1..Len(wf) : wf[i].key = key})]

Results == {"done", "pass", "fail", "refine", "blocked", "approve", "reject"}

\* "pass" taken for the completing result as well
resultToEvent_PassCompletes(result) ==
    IF result \in {"done", "pass"} THEN "COMPLETE"
    ELSE IF result = "fail" THEN "FAIL"
    ELSE IF result = "refine" THEN "REFINE"
    ELSE IF result = "blocked" THEN "BLOCKED"
    ELSE IF result = "approve" THEN "APPROVE"
    ELSE "REJECT"

resultToEvent(result) ==
    CASE result = "done"    -> "COMPLETE"
      [] result = "pass"    -> "PASS"
      [] result = "fail"    -> "FAIL"
      [] result = "refine"  -> "REFINE"
      [] result = "blocked" -> "BLOCKED"
      [] result = "approve" -> "APPROVE"
      [] result = "reject"  -> "REJECT"

NoRule == [from |-> "<none>", to |-> "<none>", actions |-> {}]

\* The target state's key returned where its label is meant
getCompletionRule_TargetKey(wf, role, result) ==
    LET event == resultToEvent(result)
        activeLabel == getActiveLabel(wf, role)
    IN  IF activeLabel = Throws THEN NoRule
        ELSE LET activeKey == findStateKeyByLabel(wf, activeLabel)
                 activeState == StateByKey(wf, activeKey)
                 T == {tr \in activeState.on : tr.event = event}
             IN  IF T = {} THEN NoRule
                 ELSE LET tr == CHOOSE x \in T : TRUE
                      IN  IF ~HasState(wf, tr.target) THEN NoRule
                          ELSE [from |-> activeLabel, to |-> tr.target,
                                actions |-> tr.actions]

\* The transition's actions left out of the rule
getCompletionRule_NoActions(wf, role, result) ==
    LET event == resultToEvent(result)
        activeLabel == getActiveLabel(wf, role)
    IN  IF activeLabel = Throws THEN NoRule
        ELSE LET activeKey == findStateKeyByLabel(wf, activeLabel)
                 activeState == StateByKey(wf, activeKey)
                 T == {tr \in activeState.on : tr.event = event}
             IN  IF T = {} THEN NoRule
                 ELSE LET tr == CHOOSE x \in T : TRUE
                          targetState == StateByKey(wf, tr.target)
                      IN  IF ~HasState(wf, tr.target) THEN NoRule
                          ELSE [from |-> activeLabel, to |-> targetState.label,
                                actions |-> {}]

getCompletionRule(wf, role, result) ==
    LET event == resultToEvent(result)
        activeLabel == getActiveLabel(wf, role)
    IN  IF activeLabel = Throws THEN NoRule
        ELSE LET activeKey == findStateKeyByLabel(wf, activeLabel)
                 activeState == StateByKey(wf, activeKey)
                 T == {tr \in activeState.on : tr.event = event}
             IN  IF T = {} THEN NoRule
                 ELSE LET tr == CHOOSE x \in T : TRUE
                          targetState == StateByKey(wf, tr.target)
                      IN  IF ~HasState(wf, tr.target) THEN NoRule
                          ELSE [from |-> activeLabel, to |-> targetState.label,
                                actions |-> tr.actions]

\* The exported table, keyed by <<role, result>> for "role:result"; the flags
\* set on an entry are its actions
COMPLETION_RULES ==
    (<<"dev", "done">> :> [from |-> "Doing", to |-> "To Test", actions |-> {"gitPull", "detectPr"}])
    @@ (<<"qa", "pass">> :> [from |-> "Testing", to |-> "Done", actions |-> {"closeIssue"}])
    @@ (<<"qa", "fail">> :> [from |-> "Testing", to |-> "To Improve", actions |-> {"reopenIssue"}])
    @@ (<<"qa", "refine">> :> [from |-> "Testing", to |-> "Refining", actions |-> {}])
    @@ (<<"dev", "blocked">> :> [from |-> "Doing", to |-> "Refining", actions |-> {}])
    @@ (<<"qa", "blocked">> :> [from |-> "Testing", to |-> "Refining", actions |-> {}])

\* pipeline.ts getRule: the rule or undefined
getRule(role, result, wf) == getCompletionRule(wf, role, result)

getRevertLabel(wf, role) ==
    LET activeLabel == getActiveLabel(wf, role)
        activeStateKey == findStateKeyByLabel(wf, activeLabel)
        S == {i \in QueueIdx(wf, role) :
                \E tr \in wf[i].on : tr.event = "PICKUP" /\ tr.target = activeStateKey}
    IN  IF activeLabel = Throws THEN Throws
        ELSE IF S # {} THEN wf[Min(S)].label
        ELSE IF QueueIdx(wf, role) = {} THEN ""
        ELSE getQueueLabels(wf, role)[1]

-----------------------------------------------------------------------------
(* Project state store *)

NoSessions == [l \in Levels |-> NoSession]

emptyWorkerState ==
    [active |-> FALSE, issueId |-> NoIssue, startTime |-> NoTime,
     level |-> NoLevel, sessions |-> NoSessions]

\* getWorker: project.workers[role] ?? emptyWorkerState([])
getWorker(store, p, role) ==
    IF role \in DOMAIN store[p] THEN store[p][role] ELSE emptyWorkerState

\* worker.sessions[level] ?? null
getSessionForLevel(worker, level) ==
    IF level \in DOMAIN worker.sessions THEN worker.sessions[level] ELSE NoSession

\* { ...worker.sessions, ...updates.sessions }
MergeSessions(old, new) ==
    [l \in DOMAIN old \cup DOMAIN new |->
        IF l \in DOMAIN new THEN new[l] ELSE old[l]]

\* updateWorker on one worker record: updates is a partial WorkerState
MergeWorker(worker, updates) ==
    [f \in DOMAIN worker |->
        IF f \notin DOMAIN updates THEN worker[f]
        ELSE IF f = "sessions" THEN MergeSessions(worker.sessions, updates.sessions)
        ELSE updates[f]]

\* updateWorker: read, merge, write back the whole document
updateWorker(store, p, role, updates) ==
    [store EXCEPT ![p][role] = MergeWorker(getWorker(store, p, role), updates)]

ActivateUpdates(issueId, level, sessionKey, startTime) ==
    LET base == [active |-> TRUE, issueId |-> issueId, level |-> level]
        withS == IF sessionKey # NoSession
                 THEN base @@ [sessions |-> (level :> sessionKey)]
                 ELSE base
    IN  IF startTime # NoTime THEN withS @@ [startTime |-> startTime] ELSE withS

\* sessionKey / startTime of NoSession / NoTime stand for an omitted parameter
activateWorker(store, p, role, issueId, level, sessionKey, startTime) ==
    updateWorker(store, p, role, ActivateUpdates(issueId, level, sessionKey, startTime))

DeactivateUpdates ==
    [active |-> FALSE, issueId |-> NoIssue, startTime |-> NoTime]

\* The stored sessions wiped along with the task
deactivateWorker_ClearsSessions(store, p, role) ==
    updateWorker(store, p, role, DeactivateUpdates @@ [sessions |-> NoSessions])

\* The level wiped along with the task
deactivateWorker_ClearsLevel(store, p, role) ==
    updateWorker(store, p, role, DeactivateUpdates @@ [level |-> NoLevel])

\* The flag cleared, the issue id left behind
deactivateWorker_KeepsIssue(store, p, role) ==
    updateWorker(store, p, role, [active |-> FALSE])

deactivateWorker(store, p, role) ==
    updateWorker(store, p, role, DeactivateUpdates)

\* The session a worker currently runs in (worker.sessionId of the reconciler)
sessionId(worker) ==
    IF worker.level = NoLevel THEN NoSession
    ELSE getSessionForLevel(worker, worker.level)

\* Session references are keyed by (project, role, level)
SessionKey(p, role, level) == <<p, role, level>>

-----------------------------------------------------------------------------
(* Project state store, memory/projects.json layout (part_006): a worker has  *)
(* the fields active, sessionId, sessions (tier -> {sessionId, startTime}),   *)
(* issueId, startTime, model and tier                                         *)

NoModel == "none"

legacyWorkerState ==
    [active |-> FALSE, sessionId |-> NoSession, sessions |-> <<>>,
     issueId |-> NoIssue, startTime |-> NoTime, model |-> NoModel, tier |-> NoLevel]

\* worker.sessions?.[tier] ?? null
getTierSession(worker, tier) ==
    IF tier \in DOMAIN worker.sessions THEN worker.sessions[tier] ELSE NoSession

\* project[role] = { ...worker, ...updates }: every field of updates, the
\* sessions map included, replaces the stored one
legacyUpdateWorker(store, p, role, updates) ==
    [store EXCEPT ![p][role] =
        [f \in DOMAIN @ |-> IF f \in DOMAIN updates THEN updates[f] ELSE @[f]]]

legacyActivateUpdates(issueId, model, tier, sid, startTime) ==
    LET base == [active |-> TRUE, issueId |-> issueId, model |-> model, tier |-> tier]
    IN  IF sid # NoSession /\ startTime # NoTime
        THEN base @@ [sessions |-> (tier :> [sessionId |-> sid, startTime |-> startTime]),
                      sessionId |-> sid]
        ELSE base

legacyActivateWorker(store, p, role, issueId, model, tier, sid, startTime) ==
    legacyUpdateWorker(store, p, role,
        legacyActivateUpdates(issueId, model, tier, sid, startTime))

\* deactivateWorker called without params: tier, sessionId and startTime are
\* the worker's own
legacyDeactivateUpdates(worker) ==
    LET base == [active |-> FALSE, issueId |-> NoIssue, startTime |-> NoTime,
                 model |-> NoModel, tier |-> NoLevel]
    IN  IF worker.tier # NoLevel /\ worker.sessionId # NoSession
            /\ worker.startTime # NoTime
        THEN base @@ [sessions |->
                        [t \in DOMAIN worker.sessions \cup {worker.tier} |->
                            IF t = worker.tier
                            THEN [sessionId |-> worker.sessionId,
                                  startTime |-> worker.startTime]
                            ELSE worker.sessions[t]]]
        ELSE base

legacyDeactivateWorker(store, p, role) ==
    legacyUpdateWorker(store, p, role, legacyDeactivateUpdates(store[p][role]))

-----------------------------------------------------------------------------
(* Issue tracker (IssueProvider contract) *)

\* transitionLabel verifies the current label and fails otherwise
canTransition(lbls, t, from) == lbls[t] = from
transitionLabel(lbls, t, from, to) == [lbls EXCEPT ![t] = to]

\* listIssuesByLabel for one project, in creation (id) order
listIssuesByLabel(lbls, p, lbl) == {t \in TasksOf(p) : lbls[t] = lbl}

Max(S) == CHOOSE x \in S : \A y \in S : x >= y

-----------------------------------------------------------------------------
(* Completion pipeline: work_finish / task_complete / executeCompletion *)

Tools == {"work_finish", "task_complete", "executeCompletion"}
SoftSteps == {"gitPull", "detectPr", "notify"}

FinIdle ==
    [op |-> "completion", pc |-> "idle", tool |-> "none", p |-> "none", role |-> "none",
     result |-> "none", issueId |-> NoIssue, rule |-> NoRule, error |-> "none",
     ran |-> {}, failed |-> {}, labelTransition |-> <<>>,
     issueClosed |-> FALSE, issueReopened |-> FALSE]

FinFree == fin.pc = "idle"

\* task_complete validates the pair and carries its transitions inline
TaskCompleteValid(role, result) ==
    /\ result \in {"done", "pass", "fail", "refine"}
    /\ ~(role = "dev" /\ result # "done")
    /\ ~(role = "qa" /\ result = "done")

TaskCompleteRule(role, result) ==
    CASE role = "dev" /\ result = "done" ->
            [from |-> "Doing", to |-> "To Test", actions |-> {"gitPull"}]
      [] role = "qa" /\ result = "pass" ->
            [from |-> "Testing", to |-> "Done", actions |-> {"closeIssue"}]
      [] role = "qa" /\ result = "fail" ->
            [from |-> "Testing", to |-> "To Improve", actions |-> {"reopenIssue"}]
      [] role = "qa" /\ result = "refine" ->
            [from |-> "Testing", to |-> "Refining", actions |-> {}]
      [] OTHER -> NoRule

\* The best-effort steps executeCompletion runs for a rule before the commit
SoftStepsOf(tool, rule) ==
    IF tool = "task_complete" THEN rule.actions \cap {"gitPull"}
    ELSE (rule.actions \cap {"gitPull", "detectPr"}) \cup {"notify"}

FinThrow(tool, p, role, result, issueId, error) ==
    [FinIdle EXCEPT !.pc = "threw", !.tool = tool, !.p = p, !.role = role,
                    !.result = result, !.issueId = issueId, !.error = error]

\* A failed best-effort step thrown to the caller
CompletionCall_Escalates(tool, p, role, result, softFail, issueOk) ==
    LET worker == getWorker(workers, p, role)
        issueId == worker.issueId
        rule == IF tool = "task_complete" THEN TaskCompleteRule(role, result)
                ELSE getCompletionRule(DEFAULT_WORKFLOW, role, result)
        out ==
            IF tool = "task_complete" /\ ~TaskCompleteValid(role, result)
            THEN FinThrow(tool, p, role, result, NoIssue, "InvalidResult")
            ELSE IF ~worker.active
            THEN FinThrow(tool, p, role, result, NoIssue, "NotActive")
            ELSE IF issueId = NoIssue
            THEN FinThrow(tool, p, role, result, NoIssue, "NoIssueId")
            ELSE IF tool = "work_finish" /\ getRule(role, result, DEFAULT_WORKFLOW) = NoRule
            THEN FinThrow(tool, p, role, result, issueId, "InvalidCompletion")
            ELSE IF rule = NoRule
            THEN FinThrow(tool, p, role, result, issueId, "NoCompletionRule")
            ELSE IF softFail \cap SoftStepsOf(tool, rule) # {}
            THEN FinThrow(tool, p, role, result, issueId, "BestEffort")
            ELSE IF tool # "task_complete" /\ ~issueOk
            THEN [FinThrow(tool, p, role, result, issueId, "GetIssue")
                    EXCEPT !.rule = rule,
                           !.ran = SoftStepsOf(tool, rule) \ {"notify"},
                           !.failed = softFail \cap (SoftStepsOf(tool, rule) \ {"notify"})]
            ELSE [FinIdle EXCEPT !.pc = "deactivate", !.tool = tool, !.p = p,
                                 !.role = role, !.result = result,
                                 !.issueId = issueId, !.rule = rule,
                                 !.ran = SoftStepsOf(tool, rule),
                                 !.failed = softFail \cap SoftStepsOf(tool, rule)]
    IN  /\ FinFree
        /\ tool = "executeCompletion" => worker.active /\ issueId # NoIssue
        /\ IF out.pc = "threw"
           THEN fin' = FinIdle /\ last' = out
           ELSE fin' = out /\ UNCHANGED last
        /\ UNCHANGED <<workers, label, open, pk, cfg, disk, sweeps, scan>>

\* The call up to (not including) the worker deactivation: validation, rule
\* lookup, git pull, PR detection, getIssue, notification.  softFail are the
\* best-effort steps that fail in this call, issueOk whether getIssue succeeds.
CompletionCall(tool, p, role, result, softFail, issueOk) ==
    LET worker == getWorker(workers, p, role)
        issueId == worker.issueId
        rule == IF tool = "task_complete" THEN TaskCompleteRule(role, result)
                ELSE getCompletionRule(DEFAULT_WORKFLOW, role, result)
        out ==
            IF tool = "task_complete" /\ ~TaskCompleteValid(role, result)
            THEN FinThrow(tool, p, role, result, NoIssue, "InvalidResult")
            ELSE IF ~worker.active
            THEN FinThrow(tool, p, role, result, NoIssue, "NotActive")
            ELSE IF issueId = NoIssue
            THEN FinThrow(tool, p, role, result, NoIssue, "NoIssueId")
            ELSE IF tool = "work_finish" /\ getRule(role, result, DEFAULT_WORKFLOW) = NoRule
            THEN FinThrow(tool, p, role, result, issueId, "InvalidCompletion")
            ELSE IF rule = NoRule
            THEN FinThrow(tool, p, role, result, issueId, "NoCompletionRule")
            ELSE IF tool # "task_complete" /\ ~issueOk
            THEN [FinThrow(tool, p, role, result, issueId, "GetIssue")
                    EXCEPT !.rule = rule,
                           !.ran = SoftStepsOf(tool, rule) \ {"notify"},
                           !.failed = softFail \cap (SoftStepsOf(tool, rule) \ {"notify"})]
            ELSE [FinIdle EXCEPT !.pc = "deactivate", !.tool = tool, !.p = p,
                                 !.role = role, !.result = result,
                                 !.issueId = issueId, !.rule = rule,
                                 !.ran = SoftStepsOf(tool, rule),
                                 !.failed = softFail \cap SoftStepsOf(tool, rule)]
    IN  /\ FinFree
        /\ tool = "executeCompletion" => worker.active /\ issueId # NoIssue
        /\ IF out.pc = "threw"
           THEN fin' = FinIdle /\ last' = out
           ELSE fin' = out /\ UNCHANGED last
        /\ UNCHANGED <<workers, label, open, pk, cfg, disk, sweeps, scan>>

\* The deactivation skipped: the pipeline moves on without the store write
CompletionDeactivate_Skipped ==
    /\ fin.pc = "deactivate"
    /\ fin' = [fin EXCEPT !.pc = "transition"]
    /\ UNCHANGED <<workers, label, open, pk, last, cfg, disk, sweeps, scan>>

\* await deactivateWorker(workspaceDir, groupId, role)
CompletionDeactivate ==
    /\ fin.pc = "deactivate"
    /\ workers' = deactivateWorker(workers, fin.p, fin.role)
    /\ fin' = [fin EXCEPT !.pc = "transition"]
    /\ UNCHANGED <<label, open, pk, last, cfg, disk, sweeps, scan>>

\* Close / reopen issued ahead of the label transition
CompletionTransition_CloseFirst(providerOk) ==
    /\ fin.pc = "transition"
    /\ open' = [open EXCEPT ![fin.issueId] =
                  IF "reopenIssue" \in fin.rule.actions THEN TRUE
                  ELSE IF "closeIssue" \in fin.rule.actions THEN FALSE
                  ELSE @]
    /\ IF providerOk /\ canTransition(label, fin.issueId, fin.rule.from)
       THEN /\ label' = transitionLabel(label, fin.issueId, fin.rule.from, fin.rule.to)
            /\ last' = [fin EXCEPT !.pc = "returned",
                          !.labelTransition = <<fin.rule.from, fin.rule.to>>,
                          !.issueClosed = "closeIssue" \in fin.rule.actions,
                          !.issueReopened = "reopenIssue" \in fin.rule.actions]
       ELSE /\ last' = [fin EXCEPT !.pc = "threw",
                          !.error = IF canTransition(label, fin.issueId, fin.rule.from)
                                    THEN "TransitionFailed" ELSE "LabelMismatch"]
            /\ UNCHANGED label
    /\ fin' = FinIdle
    /\ UNCHANGED <<workers, pk, cfg, disk, sweeps, scan>>

\* await provider.transitionLabel(...), then close / reopen, then the result.
\* providerOk is FALSE when the tracker call fails for a reason of its own.
CompletionTransition(providerOk) ==
    /\ fin.pc = "transition"
    /\ IF providerOk /\ canTransition(label, fin.issueId, fin.rule.from)
       THEN /\ label' = transitionLabel(label, fin.issueId, fin.rule.from, fin.rule.to)
            /\ open' = [open EXCEPT ![fin.issueId] =
                          IF "reopenIssue" \in fin.rule.actions THEN TRUE
                          ELSE IF "closeIssue" \in fin.rule.actions THEN FALSE
                          ELSE @]
            /\ last' = [fin EXCEPT !.pc = "returned",
                          !.labelTransition = <<fin.rule.from, fin.rule.to>>,
                          !.issueClosed = "closeIssue" \in fin.rule.actions,
                          !.issueReopened = "reopenIssue" \in fin.rule.actions]
       ELSE /\ last' = [fin EXCEPT !.pc = "threw",
                          !.error = IF canTransition(label, fin.issueId, fin.rule.from)
                                    THEN "TransitionFailed" ELSE "LabelMismatch"]
            /\ UNCHANGED <<label, open>>
    /\ fin' = FinIdle
    /\ UNCHANGED <<workers, pk, cfg, disk, sweeps, scan>>

-----------------------------------------------------------------------------
(* Scheduler: projectTick *)

NoMax == -1

\* Level a task's label set encodes (detectLevelFromLabels), if any
detectLevelFromLabels(t) ==
    IF t = 1 THEN "senior" ELSE IF t = 2 THEN "reviewer" ELSE NoLevel

\* Heuristic, text-based level selection
selectLevel(t, role) == IF role = "dev" THEN "junior" ELSE "reviewer"

resolveLevelForIssue(t, role) ==
    LET labelLevel == detectLevelFromLabels(t)
    IN  IF labelLevel # NoLevel
        THEN IF role = "qa" /\ isDevLevel(labelLevel) THEN selectLevel(t, role)
             ELSE IF role = "dev" /\ ~isDevLevel(labelLevel) THEN selectLevel(t, role)
             ELSE labelLevel
        ELSE selectLevel(t, role)

NoNext == [issue |-> NoIssue, label |-> "<none>"]

\* First queue label, in priority order, that lists an issue; its last issue.
\* listFail are the labels whose listing throws: the catch moves on to the next
findNextIssueForRole(lbls, p, role, wf, listFail) ==
    Strict(getQueueLabels(wf, role), LAMBDA labels :
    Strict({k \in DOMAIN labels : /\ labels[k] \notin listFail
                                  /\ listIssuesByLabel(lbls, p, labels[k]) # {}},
           LAMBDA K :
        IF K = {} THEN NoNext
        ELSE [issue |-> Max(listIssuesByLabel(lbls, p, labels[Min(K)])),
              label |-> labels[Min(K)]]))

\* The role itself looked up where the other one is meant
OtherRole_Same(role) == role

OtherRole(role) == IF role = "dev" THEN "qa" ELSE "dev"

\* dispatchTask on success: label transition, session spawn or reuse, and the
\* worker state write (issueId, level, session reference, start time)
DispatchTask(s, p, role, t, from, to, level) ==
    LET worker == getWorker(s.workers, p, role)
        existing == getSessionForLevel(worker, level)
        key == IF existing # NoSession THEN existing ELSE SessionKey(p, role, level)
    IN  [s EXCEPT
            !.label = transitionLabel(s.label, t, from, to),
            !.workers = activateWorker(s.workers, p, role, t, level, key, "now"),
            !.pickups = Append(s.pickups,
                [issueId |-> t, role |-> role, level |-> level,
                 sessionAction |-> IF existing # NoSession THEN "send" ELSE "spawn"])]

Skip(s, role, reason, issueId) ==
    [s EXCEPT !.skipped = Append(s.skipped,
                [role |-> role, reason |-> reason, issueId |-> issueId])]

\* The catch block without its "continue": the pickup is counted all the same
DispatchFailed_Counted(s, role, issueId) ==
    [Skip(s, role, "Dispatch failed", issueId) EXCEPT !.pickupCount = s.pickupCount + 1]

\* What the catch block of the dispatch does to the pass
DispatchFailed(s, role, issueId) == Skip(s, role, "Dispatch failed", issueId)

\* The budget test passing one pickup too many
TickRole_BudgetOffByOne(s, p, role, roleExecution, maxPickups, dryRun, dispatchOk, listFail) ==
    IF maxPickups # NoMax /\ s.pickupCount > maxPickups
    THEN Skip(s, role, "Max pickups reached", NoIssue)
    ELSE
    LET worker == getWorker(s.workers, p, role)
        next == findNextIssueForRole(s.label, p, role, DEFAULT_WORKFLOW, listFail)
        targetLabel == getActiveLabel(DEFAULT_WORKFLOW, role)
        selectedLevel == resolveLevelForIssue(next.issue, role)
    IN  IF worker.active
        THEN Skip(s, role, "Already active", worker.issueId)
        ELSE IF roleExecution = "sequential"
                /\ getWorker(s.workers, p, OtherRole(role)).active
        THEN Skip(s, role, "Sequential: other role active", NoIssue)
        ELSE IF next = NoNext THEN s
        ELSE IF dryRun
        THEN [s EXCEPT
                !.pickups = Append(s.pickups,
                    [issueId |-> next.issue, role |-> role, level |-> selectedLevel,
                     sessionAction |->
                        IF getSessionForLevel(worker, selectedLevel) # NoSession
                        THEN "send" ELSE "spawn"]),
                !.pickupCount = s.pickupCount + 1]
        ELSE IF dispatchOk
        THEN [DispatchTask(s, p, role, next.issue, next.label, targetLabel, selectedLevel)
                EXCEPT !.pickupCount = s.pickupCount + 1]
        ELSE DispatchFailed(s, role, next.issue)

\* The role loop without its already-active test
TickRole_IgnoresActive(s, p, role, roleExecution, maxPickups, dryRun, dispatchOk, listFail) ==
    IF maxPickups # NoMax /\ s.pickupCount >= maxPickups
    THEN Skip(s, role, "Max pickups reached", NoIssue)
    ELSE
    LET worker == getWorker(s.workers, p, role)
        next == findNextIssueForRole(s.label, p, role, DEFAULT_WORKFLOW, listFail)
        targetLabel == getActiveLabel(DEFAULT_WORKFLOW, role)
        selectedLevel == resolveLevelForIssue(next.issue, role)
    IN  IF roleExecution = "sequential"
                /\ getWorker(s.workers, p, OtherRole(role)).active
        THEN Skip(s, role, "Sequential: other role active", NoIssue)
        ELSE IF next = NoNext THEN s
        ELSE IF dryRun
        THEN [s EXCEPT
                !.pickups = Append(s.pickups,
                    [issueId |-> next.issue, role |-> role, level |-> selectedLevel,
                     sessionAction |->
                        IF getSessionForLevel(worker, selectedLevel) # NoSession
                        THEN "send" ELSE "spawn"]),
                !.pickupCount = s.pickupCount + 1]
        ELSE IF dispatchOk
        THEN [DispatchTask(s, p, role, next.issue, next.label, targetLabel, selectedLevel)
                EXCEPT !.pickupCount = s.pickupCount + 1]
        ELSE DispatchFailed(s, role, next.issue)

\* One iteration of the role loop.  dispatchOk: whether dispatchTask succeeds.
TickRole(s, p, role, roleExecution, maxPickups, dryRun, dispatchOk, listFail) ==
    IF maxPickups # NoMax /\ s.pickupCount >= maxPickups
    THEN Skip(s, role, "Max pickups reached", NoIssue)
    ELSE
    Strict(findNextIssueForRole(s.label, p, role, DEFAULT_WORKFLOW, listFail), LAMBDA next :
    Strict(getActiveLabel(DEFAULT_WORKFLOW, role), LAMBDA targetLabel :
    Strict(resolveLevelForIssue(next.issue, role), LAMBDA selectedLevel :
    LET worker == getWorker(s.workers, p, role)
    IN  IF worker.active
        THEN Skip(s, role, "Already active", worker.issueId)
        ELSE IF roleExecution = "sequential"
                /\ getWorker(s.workers, p, OtherRole(role)).active
        THEN Skip(s, role, "Sequential: other role active", NoIssue)
        ELSE IF next = NoNext THEN s
        ELSE IF dryRun
        THEN [s EXCEPT
                !.pickups = Append(s.pickups,
                    [issueId |-> next.issue, role |-> role, level |-> selectedLevel,
                     sessionAction |->
                        IF getSessionForLevel(worker, selectedLevel) # NoSession
                        THEN "send" ELSE "spawn"]),
                !.pickupCount = s.pickupCount + 1]
        ELSE IF dispatchOk
        THEN [DispatchTask(s, p, role, next.issue, next.label, targetLabel, selectedLevel)
                EXCEPT !.pickupCount = s.pickupCount + 1]
        ELSE DispatchFailed(s, role, next.issue))))

TickStart(store, lbls) ==
    [workers |-> store, label |-> lbls, pickups |-> <<>>, skipped |-> <<>>,
     pickupCount |-> 0]

\* projectTick: roles is <<targetRole>> or <<"dev", "qa">>; okRoles are the
\* roles whose dispatch succeeds in this pass, listFail the queue labels whose
\* listing fails in it
projectTick(store, lbls, p, roles, roleExecution, maxPickups, dryRun, okRoles, listFail) ==
    Strict(TickStart(store, lbls), LAMBDA s0 :
    Strict(TickRole(s0, p, roles[1], roleExecution, maxPickups, dryRun,
                    roles[1] \in okRoles, listFail), LAMBDA s1 :
        IF Len(roles) = 1 THEN s1
        ELSE TickRole(s1, p, roles[2], roleExecution, maxPickups, dryRun,
                      roles[2] \in okRoles, listFail)))

TickNone == [op |-> "projectTick", p |-> "none", roles |-> <<>>, dryRun |-> FALSE, maxPickups |-> NoMax,
             listFail |-> {}, pickups |-> <<>>, skipped |-> <<>>]

\* A projectTick call (work_start filling a slot, or a manual tick)
ProjectTick(p, roles, maxPickups, dryRun, okRoles, listFail) ==
    \E r \in {projectTick(workers, label, p, roles, cfg.roleExecution[p],
                          maxPickups, dryRun, okRoles, listFail)} :
        /\ workers' = r.workers
        /\ label' = r.label
        /\ last' = [op |-> "projectTick", p |-> p, roles |-> roles, dryRun |-> dryRun,
                  maxPickups |-> maxPickups, listFail |-> listFail,
                  pickups |-> r.pickups, skipped |-> r.skipped]
        /\ UNCHANGED <<open, fin, pk, cfg, disk, sweeps, scan>>

-----------------------------------------------------------------------------
(* Pickup tool: task_pickup *)

PkIdle ==
    [op |-> "task_pickup", pc |-> "idle", p |-> "none", role |-> "none", issueId |-> NoIssue,
     from |-> "<none>", to |-> "<none>", level |-> NoLevel,
     sessionAction |-> "none", error |-> "none"]

PkFree == pk.pc = "idle"

\* The tester allowed to pick up from the developer queue as well
validLabels_QaFromToDo(role) ==
    IF role = "dev" THEN {"To Do", "To Improve"} ELSE {"To Do", "To Test"}

validLabels(role) == IF role = "dev" THEN {"To Do", "To Improve"} ELSE {"To Test"}
pickupTargetLabel(role) == IF role = "dev" THEN "Doing" ELSE "Testing"

PkThrow(p, role, t, error) ==
    [PkIdle EXCEPT !.pc = "threw", !.p = p, !.role = role, !.issueId = t,
                   !.error = error]

\* Steps 1-6 of the tool: checks, model selection, label transition.
\* providerOk is FALSE when the tracker's label call fails.
TaskPickupCall(p, role, t, providerOk) ==
    LET worker == getWorker(workers, p, role)
        currentLabel == label[t]
        targetLabel == pickupTargetLabel(role)
    IN  /\ PkFree
        /\ t \in TasksOf(p)
        /\ IF worker.active
           THEN /\ last' = PkThrow(p, role, t, "AlreadyActive")
                /\ UNCHANGED <<label, pk>>
           ELSE IF currentLabel \notin validLabels(role)
           THEN /\ last' = PkThrow(p, role, t, "WrongLabel")
                /\ UNCHANGED <<label, pk>>
           ELSE IF ~providerOk
           THEN /\ last' = PkThrow(p, role, t, "TransitionFailed")
                /\ UNCHANGED <<label, pk>>
           ELSE /\ label' = transitionLabel(label, t, currentLabel, targetLabel)
                /\ pk' = [PkIdle EXCEPT !.pc = "activate", !.p = p, !.role = role,
                            !.issueId = t, !.from = currentLabel, !.to = targetLabel,
                            !.level = selectLevel(t, role),
                            !.sessionAction =
                                IF sessionId(worker) # NoSession THEN "send" ELSE "spawn"]
                /\ UNCHANGED last
        /\ UNCHANGED <<workers, open, fin, cfg, disk, sweeps, scan>>

\* The code after a failed projects.json update: the error leaves the tool
TaskPickupWriteFailed == [pk EXCEPT !.pc = "threw", !.error = "StateWrite"]

\* Step 7: the projects.json update.  writeOk is FALSE when the write fails.
TaskPickupActivate(writeOk) ==
    /\ pk.pc = "activate"
    /\ IF writeOk
       THEN /\ workers' = activateWorker(workers, pk.p, pk.role, pk.issueId, pk.level,
                            NoSession,
                            IF pk.sessionAction = "spawn" THEN "now" ELSE NoTime)
            /\ last' = [pk EXCEPT !.pc = "returned"]
       ELSE /\ last' = TaskPickupWriteFailed
            /\ UNCHANGED workers
    /\ pk' = PkIdle
    /\ UNCHANGED <<label, open, fin, cfg, disk, sweeps, scan>>

-----------------------------------------------------------------------------
(* Health reconciler: session_health *)

healthRevertLabel(role) == IF role = "dev" THEN "To Do" ELSE "To Test"
healthCurrentLabel(role) == IF role = "dev" THEN "Doing" ELSE "Testing"

Finding(type, p, role, issueId, fixed, reverted) ==
    [type |-> type, p |-> p, role |-> role, issueId |-> issueId,
     fixed |-> fixed, labelReverted |-> reverted]

AddFinding(s, f) == [s EXCEPT !.findings = Append(s.findings, f)]

\* Check 1: active but no session reference
CheckNoSession(s, worker, p, role, autoFix) ==
    IF worker.active /\ sessionId(worker) = NoSession
    THEN AddFinding(
            IF autoFix
            THEN [s EXCEPT !.workers = updateWorker(s.workers, p, role,
                                [active |-> FALSE, issueId |-> NoIssue])]
            ELSE s,
            Finding("active_no_session", p, role, worker.issueId, autoFix, FALSE))
    ELSE s

\* The zombie fix clearing the issue id but not the active flag
CheckZombie_KeepsActive(s, worker, p, role, activeSessions, autoFix, providerOk) ==
    IF /\ worker.active
       /\ sessionId(worker) # NoSession
       /\ activeSessions # {}
       /\ sessionId(worker) \notin activeSessions
    THEN AddFinding(
            IF autoFix
            THEN [s EXCEPT !.workers = updateWorker(s.workers, p, role,
                                            [issueId |-> NoIssue])]
            ELSE s,
            Finding("zombie_session", p, role, worker.issueId, autoFix, FALSE))
    ELSE s

\* The zombie check without its test for an empty live list
CheckZombie_NoEmptyTest(s, worker, p, role, activeSessions, autoFix, providerOk) ==
    IF /\ worker.active
       /\ sessionId(worker) # NoSession
       /\ sessionId(worker) \notin activeSessions
    THEN LET reverts == /\ worker.issueId # NoIssue
                        /\ providerOk
                        /\ canTransition(s.label, worker.issueId, healthCurrentLabel(role))
         IN  AddFinding(
                IF autoFix
                THEN [s EXCEPT
                        !.label = IF reverts
                                  THEN transitionLabel(s.label, worker.issueId,
                                          healthCurrentLabel(role), healthRevertLabel(role))
                                  ELSE s.label,
                        !.reverts = IF worker.issueId # NoIssue
                                    THEN s.reverts + 1 ELSE s.reverts,
                        !.workers = updateWorker(s.workers, p, role,
                                        [active |-> FALSE, issueId |-> NoIssue])]
                ELSE s,
                Finding("zombie_session", p, role, worker.issueId, autoFix,
                        autoFix /\ reverts))
    ELSE s

\* The zombie fix deactivating only when the label revert went through
CheckZombie_FixOnlyIfReverted(s, worker, p, role, activeSessions, autoFix, providerOk) ==
    IF /\ worker.active
       /\ sessionId(worker) # NoSession
       /\ activeSessions # {}
       /\ sessionId(worker) \notin activeSessions
    THEN LET reverts == /\ worker.issueId # NoIssue
                        /\ providerOk
                        /\ canTransition(s.label, worker.issueId, healthCurrentLabel(role))
         IN  AddFinding(
                IF autoFix
                THEN [s EXCEPT
                        !.label = IF reverts
                                  THEN transitionLabel(s.label, worker.issueId,
                                          healthCurrentLabel(role), healthRevertLabel(role))
                                  ELSE s.label,
                        !.reverts = IF worker.issueId # NoIssue
                                    THEN s.reverts + 1 ELSE s.reverts,
                        !.workers = IF reverts
                                    THEN updateWorker(s.workers, p, role,
                                            [active |-> FALSE, issueId |-> NoIssue])
                                    ELSE s.workers]
                ELSE s,
                Finding("zombie_session", p, role, worker.issueId, autoFix,
                        autoFix /\ reverts))
    ELSE s

\* Check 2: active with a session reference that is not in the live list
CheckZombie(s, worker, p, role, activeSessions, autoFix, providerOk) ==
    IF /\ worker.active
       /\ sessionId(worker) # NoSession
       /\ activeSessions # {}
       /\ sessionId(worker) \notin activeSessions
    THEN LET reverts == /\ worker.issueId # NoIssue
                        /\ providerOk
                        /\ canTransition(s.label, worker.issueId, healthCurrentLabel(role))
         IN  AddFinding(
                IF autoFix
                THEN [s EXCEPT
                        !.label = IF reverts
                                  THEN transitionLabel(s.label, worker.issueId,
                                          healthCurrentLabel(role), healthRevertLabel(role))
                                  ELSE s.label,
                        !.reverts = IF worker.issueId # NoIssue
                                    THEN s.reverts + 1 ELSE s.reverts,
                        !.workers = updateWorker(s.workers, p, role,
                                        [active |-> FALSE, issueId |-> NoIssue])]
                ELSE s,
                Finding("zombie_session", p, role, worker.issueId, autoFix,
                        autoFix /\ reverts))
    ELSE s

\* The stale check clearing the worker under auto-fix or not
CheckStale_Clears(s, worker, p, role) ==
    IF worker.active /\ worker.startTime = "old"
    THEN AddFinding([s EXCEPT !.workers = updateWorker(s.workers, p, role,
                                    [active |-> FALSE, issueId |-> NoIssue])],
                    Finding("stale_worker", p, role, worker.issueId, TRUE, FALSE))
    ELSE s

\* Check 3: active for more than two hours
CheckStale(s, worker, p, role) ==
    IF worker.active /\ worker.startTime = "old"
    THEN AddFinding(s, Finding("stale_worker", p, role, worker.issueId, FALSE, FALSE))
    ELSE s

\* The fix of check 4 made with the whole deactivation record
CheckInactiveWithIssue_Deactivates(s, worker, p, role, autoFix) ==
    IF ~worker.active /\ worker.issueId # NoIssue
    THEN AddFinding(
            IF autoFix
            THEN [s EXCEPT !.workers = updateWorker(s.workers, p, role, DeactivateUpdates)]
            ELSE s,
            Finding("inactive_with_issue", p, role, worker.issueId, autoFix, FALSE))
    ELSE s

\* Check 4: inactive but still carrying an issue id
CheckInactiveWithIssue(s, worker, p, role, autoFix) ==
    IF ~worker.active /\ worker.issueId # NoIssue
    THEN AddFinding(
            IF autoFix
            THEN [s EXCEPT !.workers = updateWorker(s.workers, p, role,
                                [issueId |-> NoIssue])]
            ELSE s,
            Finding("inactive_with_issue", p, role, worker.issueId, autoFix, FALSE))
    ELSE s

\* The four checks for one (project, role); worker is the snapshot read at the
\* start of the scan, the fixes go through updateWorker (which re-reads)
checkWorkerHealth(s, worker, p, role, activeSessions, autoFix, providerOk) ==
    Strict(CheckNoSession(s, worker, p, role, autoFix), LAMBDA s1 :
    Strict(CheckZombie(s1, worker, p, role, activeSessions, autoFix, providerOk), LAMBDA s2 :
    Strict(CheckStale(s2, worker, p, role), LAMBDA s3 :
        CheckInactiveWithIssue(s3, worker, p, role, autoFix))))

HealthStart(store, lbls) ==
    [workers |-> store, label |-> lbls, findings |-> <<>>, reverts |-> 0]

\* Both roles of one project, against the snapshot
HealthProject(s, snapshot, p, activeSessions, autoFix, providerOk) ==
    Strict(checkWorkerHealth(s, snapshot[p]["dev"], p, "dev",
                             activeSessions, autoFix, providerOk), LAMBDA s1 :
        checkWorkerHealth(s1, snapshot[p]["qa"], p, "qa",
                          activeSessions, autoFix, providerOk))

RECURSIVE HealthAll(_, _, _, _, _, _)
HealthAll(s, snapshot, order, activeSessions, autoFix, providerOk) ==
    IF order = <<>> THEN s
    ELSE Strict(HealthProject(s, snapshot, Head(order), activeSessions, autoFix,
                              providerOk), LAMBDA s1 :
            HealthAll(s1, snapshot, Tail(order), activeSessions, autoFix, providerOk))

HlNone == [op |-> "session_health", autoFix |-> FALSE, activeSessions |-> {}, findings |-> <<>>, reverts |-> 0]

\* The session_health tool over all projects
SessionHealth(order, autoFix, activeSessions, providerOk) ==
    \E r \in {HealthAll(HealthStart(workers, label), workers, order, activeSessions,
                        autoFix, providerOk)} :
        /\ workers' = r.workers
        /\ label' = r.label
        /\ last' = [op |-> "session_health", autoFix |-> autoFix, activeSessions |-> activeSessions,
                  findings |-> r.findings, reverts |-> r.reverts]
        /\ UNCHANGED <<open, fin, pk, cfg, disk, sweeps, scan>>

-----------------------------------------------------------------------------
(* Heartbeat: the service's tick and the work_heartbeat tool *)

ProjectActive(store, p) ==
    getWorker(store, p, "dev").active \/ getWorker(store, p, "qa").active

NumFixed(findings) == Cardinality({i \in DOMAIN findings : findings[i].fixed})

WithProject(seq, p) == [i \in DOMAIN seq |-> seq[i] @@ [p |-> p]]

OkRolesOf(okPairs, p) == {r \in RoleSet : <<p, r>> \in okPairs}

\* <<p, stage>> when the pass of project p raised an exception in that stage
NoThrow == <<>>

HbStart(store, lbls) ==
    [workers |-> store, label |-> lbls, totalPickups |-> 0, totalHealthFixes |-> 0,
     totalSkipped |-> 0, activeProjects |-> 0, pickups |-> <<>>, skipped |-> <<>>,
     healthChecked |-> <<>>, ticked |-> <<>>, stop |-> FALSE, threw |-> NoThrow]

\* The sequential project guard of both sweeps
SequentialGuard(projectExecution, projectActive, activeProjects) ==
    projectExecution = "sequential" /\ ~projectActive /\ activeProjects >= 1

\* One iteration of the service's project loop (heartbeat.ts tick).  throwing
\* holds <<p, "health">> when createProvider or checkWorkerHealth throws for p
\* and <<p, "tick">> when projectTick does: nothing in the loop catches it
ServiceProject(h, snapshot, p, maxPickupsPerTick, config, okPairs, throwing) ==
    IF <<p, "health">> \in throwing
    THEN [h EXCEPT !.stop = TRUE, !.threw = <<p, "health">>]
    ELSE
    Strict(HealthProject(HealthStart(h.workers, h.label), snapshot, p, {}, TRUE, TRUE),
           LAMBDA hc :
    Strict([h EXCEPT !.workers = hc.workers, !.label = hc.label,
                     !.totalHealthFixes = @ + NumFixed(hc.findings),
                     !.healthChecked = Append(@, p)], LAMBDA h1 :
    Strict(projectTick(h1.workers, h1.label, p, Roles, config.roleExecution[p],
                       maxPickupsPerTick - h1.totalPickups, FALSE, OkRolesOf(okPairs, p), {}),
           LAMBDA result :
    LET remaining == maxPickupsPerTick - h1.totalPickups
        projectActive == ProjectActive(h1.workers, p)
    IN  IF remaining <= 0 THEN [h1 EXCEPT !.stop = TRUE]
        ELSE IF SequentialGuard(config.projectExecution, projectActive, h1.activeProjects)
        THEN [h1 EXCEPT !.totalSkipped = @ + 1]
        ELSE IF <<p, "tick">> \in throwing
        THEN [h1 EXCEPT !.stop = TRUE, !.threw = <<p, "tick">>]
        ELSE [h1 EXCEPT
                !.workers = result.workers,
                !.label = result.label,
                !.totalPickups = @ + Len(result.pickups),
                !.totalSkipped = @ + Len(result.skipped),
                !.pickups = @ \o WithProject(result.pickups, p),
                !.skipped = @ \o WithProject(result.skipped, p),
                !.ticked = Append(@, p),
                !.activeProjects =
                    IF projectActive \/ Len(result.pickups) > 0 THEN @ + 1 ELSE @])))

RECURSIVE ServiceSweep(_, _, _, _, _, _, _)
ServiceSweep(h, snapshot, order, maxPickupsPerTick, config, okPairs, throwing) ==
    IF order = <<>> \/ h.stop THEN h
    ELSE Strict(ServiceProject(h, snapshot, Head(order), maxPickupsPerTick, config, okPairs,
                               throwing),
                LAMBDA h1 :
            ServiceSweep(h1, snapshot, Tail(order), maxPickupsPerTick, config, okPairs,
                         throwing))

snapshotGlobalState(store, entries) ==
    LET E == {entries[i] : i \in DOMAIN entries}
    IN  [activeDev |-> Cardinality({q \in E : getWorker(store, q, "dev").active}),
         activeQa |-> Cardinality({q \in E : getWorker(store, q, "qa").active}),
         activeProjects |-> Cardinality({q \in E : ProjectActive(store, q)})]

\* One iteration of runTickPass (work-heartbeat.ts); projectTick throws for
\* the projects with <<p, "tick">> in throwing
TickPassProject(h, p, maxPickups, dryRun, config, okPairs, throwing) ==
    Strict(projectTick(h.workers, h.label, p, Roles, config.roleExecution[p],
                       IF maxPickups # NoMax THEN maxPickups - h.totalPickups ELSE NoMax,
                       dryRun, OkRolesOf(okPairs, p), {}), LAMBDA result :
    LET projectActive == ProjectActive(h.workers, p)
    IN  IF maxPickups # NoMax /\ h.totalPickups >= maxPickups
        THEN [h EXCEPT !.skipped = Append(@,
                [p |-> p, role |-> "none", reason |-> "Max pickups reached",
                 issueId |-> NoIssue])]
        ELSE IF SequentialGuard(config.projectExecution, projectActive, h.activeProjects)
        THEN [h EXCEPT !.skipped = Append(@,
                [p |-> p, role |-> "none", reason |-> "Sequential: another project active",
                 issueId |-> NoIssue])]
        ELSE IF <<p, "tick">> \in throwing
        THEN [h EXCEPT !.stop = TRUE, !.threw = <<p, "tick">>]
        ELSE [h EXCEPT
                !.workers = result.workers,
                !.label = result.label,
                !.totalPickups = @ + Len(result.pickups),
                !.pickups = @ \o WithProject(result.pickups, p),
                !.skipped = @ \o WithProject(result.skipped, p),
                !.ticked = Append(@, p),
                !.activeProjects =
                    IF ~dryRun /\ Len(result.pickups) > 0 /\ ~projectActive
                    THEN @ + 1 ELSE @])

RECURSIVE runTickPass(_, _, _, _, _, _, _)
runTickPass(h, entries, maxPickups, dryRun, config, okPairs, throwing) ==
    IF entries = <<>> \/ h.stop THEN h
    ELSE Strict(TickPassProject(h, Head(entries), maxPickups, dryRun, config, okPairs,
                                throwing),
                LAMBDA h1 :
            runTickPass(h1, Tail(entries), maxPickups, dryRun, config, okPairs, throwing))

\* globalState after "Update global state with new pickups"
updateGlobalState(g, pickups) ==
    [activeDev |-> g.activeDev
        + Cardinality({i \in DOMAIN pickups : pickups[i].role = "dev"}),
     activeQa |-> g.activeQa
        + Cardinality({i \in DOMAIN pickups : pickups[i].role # "dev"}),
     activeProjects |-> g.activeProjects
        + Cardinality({pickups[i].p : i \in DOMAIN pickups})]

NoGlobal == [activeDev |-> 0, activeQa |-> 0, activeProjects |-> 0]

HbNone ==
    [op |-> "heartbeat", kind |-> "none", order |-> <<>>, dryRun |-> FALSE, maxPickups |-> NoMax,
     pickups |-> <<>>, skipped |-> <<>>, healthFixes |-> 0,
     healthChecked |-> <<>>, ticked |-> <<>>, globalState |-> NoGlobal,
     threw |-> NoThrow]

HEARTBEAT_DEFAULTS == [enabled |-> TRUE, intervalSeconds |-> 60, maxPickupsPerTick |-> 4]

\* One sweep of the heartbeat service over the projects in the given order;
\* an exception leaves tick() and is logged by the interval callback
tick(order, maxPickupsPerTick, okPairs, throwing) ==
    \E r \in {ServiceSweep(HbStart(workers, label), workers, order, maxPickupsPerTick,
                           cfg, okPairs, throwing)} :
        /\ workers' = r.workers
        /\ label' = r.label
        /\ last' = [HbNone EXCEPT !.kind = "service", !.order = order,
                    !.maxPickups = maxPickupsPerTick,
                    !.pickups = r.pickups, !.skipped = r.skipped,
                    !.healthFixes = r.totalHealthFixes,
                    !.healthChecked = r.healthChecked, !.ticked = r.ticked,
                    !.threw = r.threw]
        /\ UNCHANGED <<open, fin, pk, cfg, disk, scan>>

HeartbeatService(order, maxPickupsPerTick, okPairs, throwing) ==
    /\ tick(order, maxPickupsPerTick, okPairs, throwing)
    /\ UNCHANGED sweeps

\* runHealthPass up to the first project whose health pass throws
HealthEntries(entries, throwing) ==
    LET H == {i \in DOMAIN entries : <<entries[i], "health">> \in throwing}
    IN  IF H = {} THEN entries ELSE SubSeq(entries, 1, Min(H) - 1)

\* The health pass fixing what it finds whatever dryRun says
WorkHeartbeat_FixesOnDryRun(entries, dryRun, maxPickups, activeSessions, okPairs, providerOk, throwing) ==
    \E healthEntries \in {HealthEntries(entries, throwing)} :
    \E hc \in {HealthAll(HealthStart(workers, label), workers, healthEntries, activeSessions,
                          TRUE, providerOk)} :
    \E globalState \in {snapshotGlobalState(hc.workers, entries)} :
    \E h0 \in {[HbStart(hc.workers, hc.label) EXCEPT
                    !.activeProjects = globalState.activeProjects]} :
    \E r \in {IF healthEntries # entries
              THEN [h0 EXCEPT !.threw = <<entries[Len(healthEntries) + 1], "health">>]
              ELSE runTickPass(h0, entries, maxPickups, dryRun, cfg, okPairs, throwing)} :
        /\ workers' = r.workers
        /\ label' = r.label
        /\ last' = [HbNone EXCEPT !.kind = "tool", !.order = entries, !.dryRun = dryRun,
                    !.maxPickups = maxPickups,
                    !.pickups = r.pickups, !.skipped = r.skipped,
                    !.healthFixes = Len(hc.findings),
                    !.healthChecked = healthEntries, !.ticked = r.ticked,
                    !.globalState = IF r.threw # NoThrow THEN NoGlobal
                                    ELSE updateGlobalState(globalState, r.pickups),
                    !.threw = r.threw]
        /\ UNCHANGED <<open, fin, pk, cfg, disk, sweeps, scan>>

\* One work_heartbeat call; entries is <<target>> or all projects in order.
\* An exception of runHealthPass or runTickPass leaves execute
WorkHeartbeat(entries, dryRun, maxPickups, activeSessions, okPairs, providerOk, throwing) ==
    \E healthEntries \in {HealthEntries(entries, throwing)} :
    \E hc \in {HealthAll(HealthStart(workers, label), workers, healthEntries, activeSessions,
                          ~dryRun, providerOk)} :
    \E globalState \in {snapshotGlobalState(hc.workers, entries)} :
    \E h0 \in {[HbStart(hc.workers, hc.label) EXCEPT
                    !.activeProjects = globalState.activeProjects]} :
    \E r \in {IF healthEntries # entries
              THEN [h0 EXCEPT !.threw = <<entries[Len(healthEntries) + 1], "health">>]
              ELSE runTickPass(h0, entries, maxPickups, dryRun, cfg, okPairs, throwing)} :
        /\ workers' = r.workers
        /\ label' = r.label
        /\ last' = [HbNone EXCEPT !.kind = "tool", !.order = entries, !.dryRun = dryRun,
                    !.maxPickups = maxPickups,
                    !.pickups = r.pickups, !.skipped = r.skipped,
                    !.healthFixes = Len(hc.findings),
                    !.healthChecked = healthEntries, !.ticked = r.ticked,
                    !.globalState = IF r.threw # NoThrow THEN NoGlobal
                                    ELSE updateGlobalState(globalState, r.pickups),
                    !.threw = r.threw]
        /\ UNCHANGED <<open, fin, pk, cfg, disk, sweeps, scan>>

-----------------------------------------------------------------------------
(* Human decisions in the tracker, initial state, next-state relation *)

\* APPROVE: a hold state (Planning, Refining) is released to the dev queue
Approve(t) ==
    /\ label[t] \in {"Planning", "Refining"}
    /\ label' = [label EXCEPT ![t] = "To Do"]
    /\ UNCHANGED <<workers, open, fin, pk, last, cfg, disk, sweeps, scan>>

LastNone == [op |-> "none"]

Executions == {"parallel", "sequential"}
Configs ==
    [roleExecution : [Projects -> Executions], projectExecution : Executions]

-----------------------------------------------------------------------------
(* projects.json on disk *)

Writers == {1, 2}
MaxWrites == 3
NumChunks == 2
NoFile == -1
Hole == <<0, 0>>

\* JSON.stringify(data, null, 2) + "\n" as the chunks a write call hands over;
\* document 0 is the registered one, document w what writer w serialises
Serialized(d) == [i \in 1..NumChunks |-> <<d, i>>]

\* JSON.parse accepts exactly a whole serialised document
Parses(raw) == \E d \in {0} \cup Writers : raw = Serialized(d)

WriterIdle == [pc |-> "idle", ino |-> NoFile, pos |-> 0]

\* canon and tmp are the directory entries projects.json and projects.json.tmp
DiskInit ==
    [canon |-> 0, tmp |-> NoFile, data |-> <<Serialized(0)>>,
     w |-> [w \in Writers |-> WriterIdle], writes |-> 0]

\* Inode i's content; inodes are numbered from 0
InodeData(d, i) == d.data[i + 1]

\* fs.writeFile(tmpPath, ...) opening the path: created if missing, else truncated
WriteOpen(w) ==
    /\ disk.w[w].pc = "idle"
    /\ disk.writes < MaxWrites
    /\ LET ino == IF disk.tmp = NoFile THEN Len(disk.data) ELSE disk.tmp
           data == IF disk.tmp = NoFile THEN Append(disk.data, <<>>)
                   ELSE [disk.data EXCEPT ![ino + 1] = <<>>]
       IN  disk' = [disk EXCEPT !.tmp = ino, !.data = data,
                                !.writes = @ + 1,
                                !.w[w] = [pc |-> "writing", ino |-> ino, pos |-> 0]]
    /\ UNCHANGED <<workers, label, open, fin, pk, last, cfg, sweeps, scan>>

\* One write of the open handle, at the handle's own position
WriteChunk(w) ==
    /\ disk.w[w].pc = "writing"
    /\ LET me == disk.w[w]
           old == InodeData(disk, me.ino)
           at == me.pos + 1
           new == [i \in 1..(IF Len(old) > at THEN Len(old) ELSE at) |->
                      IF i = at THEN <<w, at>>
                      ELSE IF i <= Len(old) THEN old[i] ELSE Hole]
       IN  disk' = [disk EXCEPT !.data[me.ino + 1] = new,
                                !.w[w].pos = at,
                                !.w[w].pc = IF at = NumChunks THEN "rename" ELSE "writing"]
    /\ UNCHANGED <<workers, label, open, fin, pk, last, cfg, sweeps, scan>>

\* fs.rename(tmpPath, filePath): throws ENOENT when the temp name is gone
WriteRename(w) ==
    /\ disk.w[w].pc = "rename"
    /\ IF disk.tmp = NoFile
       THEN /\ disk' = [disk EXCEPT !.w[w] = WriterIdle]
            /\ last' = [op |-> "writeProjects", writer |-> w, threw |-> TRUE]
       ELSE /\ disk' = [disk EXCEPT !.canon = disk.tmp, !.tmp = NoFile,
                                     !.w[w] = WriterIdle]
            /\ last' = [op |-> "writeProjects", writer |-> w, threw |-> FALSE]
    /\ UNCHANGED <<workers, label, open, fin, pk, cfg, sweeps, scan>>

\* readProjects: fs.readFile of the canonical path, then JSON.parse
ReadProjects ==
    /\ last' = [op |-> "readProjects", raw |-> InodeData(disk, disk.canon),
                threw |-> ~Parses(InodeData(disk, disk.canon))]
    /\ UNCHANGED <<workers, label, open, fin, pk, cfg, disk, sweeps, scan>>

NextDisk ==
    \/ \E w \in Writers : WriteOpen(w)
    \/ \E w \in Writers : WriteChunk(w)
    \/ \E w \in Writers : WriteRename(w)
    \/ ReadProjects

ScanIdle == [pc |-> "idle"]

\* Registration: zero-valued workers; every task starts in the initial state
Registered ==
    /\ workers = [p \in Projects |-> [r \in RoleSet |-> emptyWorkerState]]
    /\ label = [t \in Tasks |-> "Planning"]
    /\ open = [t \in Tasks |-> TRUE]
    /\ fin = FinIdle
    /\ pk = PkIdle
    /\ last = LastNone
    /\ disk = DiskInit
    /\ sweeps = <<>>
    /\ scan = ScanIdle

Init ==
    /\ Registered
    /\ cfg \in {c \in Configs : c.projectExecution = "parallel" /\ c.roleExecution["p2"] = "parallel"}

\* Registration with every execution mode left at its default
InitParallel ==
    /\ Registered
    /\ cfg \in {c \in Configs : /\ c.projectExecution = "parallel"
                                /\ \A p \in Projects : c.roleExecution[p] = "parallel"}

\* Object.keys(data.projects): the projects in the order of the file
ProjectOrder == <<"p1", "p2">>
Targets == {<<p>> : p \in Projects}
AllPairs == Projects \X RoleSet

ValidCalls ==
    {<<"dev", "done">>, <<"dev", "blocked">>, <<"qa", "pass">>, <<"qa", "fail">>,
     <<"qa", "refine">>, <<"qa", "blocked">>}

\* A dispatched worker reports its result through the given tool
WorkerFinishes(tools, projects, calls) ==
    \/ \E tool \in tools, p \in projects, call \in calls :
            /\ getWorker(workers, p, call[1]).active
            /\ CompletionCall(tool, p, call[1], call[2], {}, TRUE)
    \/ CompletionDeactivate
    \/ \E providerOk \in BOOLEAN : CompletionTransition(providerOk)

Tick(projects) ==
    \E p \in projects, okRoles \in SUBSET RoleSet :
        ProjectTick(p, Roles, NoMax, FALSE, okRoles, {})

Pickup(projects) ==
    \/ \E p \in projects, role \in RoleSet, t \in Tasks :
            TaskPickupCall(p, role, t, TRUE)
    \/ \E writeOk \in BOOLEAN : TaskPickupActivate(writeOk)

Heartbeat ==
    \/ HeartbeatService(ProjectOrder, HEARTBEAT_DEFAULTS.maxPickupsPerTick, AllPairs, {})
    \/ \E entries \in {ProjectOrder} \cup Targets :
            WorkHeartbeat(entries, FALSE, NoMax, {}, AllPairs, TRUE, {})

\* The tools of one project
Next ==
    \/ \E t \in TasksOf("p1") : Approve(t)
    \/ WorkerFinishes({"work_finish", "task_complete"}, {"p1"}, ValidCalls)
    \/ Pickup({"p1"})

Spec == Init /\ [][Next]_vars

\* Scheduler and completions of one project
NextSched ==
    \/ \E t \in TasksOf("p1") : Approve(t)
    \/ WorkerFinishes({"work_finish"}, {"p1"}, {<<"dev", "done">>, <<"qa", "fail">>})
    \/ Tick({"p1"})

SpecSched == Init /\ [][NextSched]_vars

\* Tools, scheduler, completions and the health reconciler of one project
NextHealth ==
    \/ Approve(1)
    \/ WorkerFinishes({"work_finish", "task_complete"}, {"p1"}, {<<"dev", "done">>, <<"qa", "fail">>})
    \/ ProjectTick("p1", Roles, NoMax, FALSE, RoleSet, {})
    \/ Pickup({"p1"})
    \/ \E autoFix \in BOOLEAN, activeSessions \in {{}, {<<"other">>}} :
            SessionHealth(ProjectOrder, autoFix, activeSessions, TRUE)

SpecHealth == InitParallel /\ [][NextHealth]_vars

\* Heartbeat sweeps over both projects, and the workers' completions
InitHeartbeat ==
    /\ Registered
    /\ cfg \in {c \in Configs : /\ c.projectExecution = "sequential"
                                /\ \A p \in Projects : c.roleExecution[p] = "parallel"}

NextHeartbeat ==
    \/ \E p \in Projects : Approve(Min(TasksOf(p)))
    \/ WorkerFinishes({"work_finish"}, Projects, {<<"dev", "done">>, <<"qa", "pass">>})
    \/ Heartbeat

SpecHeartbeat == InitHeartbeat /\ [][NextHeartbeat]_vars

\* A human moves a task's label by hand in the tracker
Relabel(t, lbl) ==
    /\ label[t] # lbl
    /\ label' = [label EXCEPT ![t] = lbl]
    /\ UNCHANGED <<workers, open, fin, pk, last, cfg, disk, sweeps, scan>>

\* Any result an active worker may report, valid or not, through work_finish
\* or straight to executeCompletion, with the failure modes of the call
AnyCompletion(projects) ==
    \/ \E tool \in {"work_finish", "executeCompletion"}, p \in projects,
          role \in RoleSet, result \in Results,
          softFail \in {{}, SoftSteps}, issueOk \in BOOLEAN :
            /\ getWorker(workers, p, role).active
            /\ CompletionCall(tool, p, role, result, softFail, issueOk)
    \/ CompletionDeactivate
    \/ \E providerOk \in BOOLEAN : CompletionTransition(providerOk)

\* The completion pipeline of one project against a hand-edited tracker;
\* scheduler passes run between the completion calls
NextCompletion ==
    \/ Approve(1)
    \/ \E lbl \in {"To Do", "Doing", "To Test", "Testing"} : Relabel(1, lbl)
    \/ FinFree /\ ProjectTick("p1", Roles, NoMax, FALSE, RoleSet, {})
    \/ AnyCompletion({"p1"})

SpecCompletion == InitParallel /\ [][NextCompletion]_vars

\* Per-cycle pickup budgets tried: below, at and above what two projects offer
Budgets == 0..2

\* projectTick calls and heartbeat sweeps under a pickup budget, both projects
NextBudget ==
    \/ \E t \in Tasks : Approve(t)
    \/ WorkerFinishes({"work_finish"}, Projects, {<<"dev", "done">>})
    \/ \E maxPickups \in Budgets : ProjectTick("p1", Roles, maxPickups, FALSE, RoleSet, {})
    \/ \E maxPickupsPerTick \in Budgets \ {0}, okPairs \in {AllPairs, AllPairs \ {<<"p1", "dev">>}} :
            HeartbeatService(ProjectOrder, maxPickupsPerTick, okPairs, {})
    \/ \E maxPickups \in Budgets \ {0}, dryRun \in BOOLEAN :
            WorkHeartbeat(ProjectOrder, dryRun, maxPickups, {}, AllPairs, TRUE, {})

SpecBudget == InitParallel /\ [][NextBudget]_vars

\* Scheduler passes of one project while some queue listings fail, and the
\* completions that fill the dev queues "To Do" and "To Improve"
NextQueue ==
    \/ \E t \in TasksOf("p1") : Approve(t)
    \/ WorkerFinishes({"work_finish"}, {"p1"}, {<<"dev", "done">>, <<"qa", "fail">>})
    \/ \E listFail \in SUBSET {"To Do", "To Improve"} :
            ProjectTick("p1", Roles, NoMax, FALSE, RoleSet, listFail)

SpecQueue == InitParallel /\ [][NextQueue]_vars

\* The store on its own: calls of updateWorker, activateWorker and
\* deactivateWorker on the dev worker of p1 (projects.ts) and on the dev
\* worker of p2, kept in the memory/projects.json layout (part_006)
StoreLevels == {"junior", "senior"}
SessionRefs == {<<"s1">>, <<"s2">>}

\* Partial worker states handed to updateWorker
StoreUpdates ==
    {[sessions |-> ("junior" :> <<"s2">>)],
     [level |-> "senior"],
     [active |-> FALSE, issueId |-> NoIssue],
     [issueId |-> NoIssue, sessions |-> ("senior" :> <<"s1">>)]}

\* How far the last calls on p1 got through activate(L, S), deactivate(),
\* activate(L): <<>>, <<L, S>>, <<L, S, "deactivated">>, <<L, S, "reactivated">>
RoundTrip(fn, level, sessionKey) ==
    LET rt == IF last.op = "store" THEN last.roundTrip ELSE <<>>
    IN  IF fn = "activateWorker" /\ sessionKey # NoSession THEN <<level, sessionKey>>
        ELSE IF fn = "deactivateWorker" /\ Len(rt) = 2 THEN Append(rt, "deactivated")
        ELSE IF fn = "activateWorker" /\ Len(rt) = 3 /\ rt[3] = "deactivated"
                /\ rt[1] = level
        THEN <<rt[1], rt[2], "reactivated">>
        ELSE <<>>

StoreCall(fn, p, level, updates, roundTrip) ==
    [op |-> "store", fn |-> fn, p |-> p, level |-> level, updates |-> updates,
     roundTrip |-> roundTrip]

StoreUnchanged == UNCHANGED <<label, open, fin, pk, cfg, disk, sweeps, scan>>

UpdateWorker(updates) ==
    /\ workers' = updateWorker(workers, "p1", "dev", updates)
    /\ last' = StoreCall("updateWorker", "p1", NoLevel, updates,
                         RoundTrip("updateWorker", NoLevel, NoSession))
    /\ StoreUnchanged

ActivateWorker(level, sessionKey) ==
    LET startTime == IF sessionKey # NoSession THEN "now" ELSE NoTime
    IN  /\ workers' = activateWorker(workers, "p1", "dev", 1, level, sessionKey, startTime)
        /\ last' = StoreCall("activateWorker", "p1", level,
                             ActivateUpdates(1, level, sessionKey, startTime),
                             RoundTrip("activateWorker", level, sessionKey))
        /\ StoreUnchanged

DeactivateWorker ==
    /\ workers' = deactivateWorker(workers, "p1", "dev")
    /\ last' = StoreCall("deactivateWorker", "p1", NoLevel, DeactivateUpdates,
                         RoundTrip("deactivateWorker", NoLevel, NoSession))
    /\ StoreUnchanged

LegacyActivateWorker(tier, sid) ==
    LET startTime == IF sid # NoSession THEN "now" ELSE NoTime
        rt == IF last.op = "store" THEN last.roundTrip ELSE <<>>
    IN  /\ workers' = legacyActivateWorker(workers, "p2", "dev", 3, tier, tier, sid, startTime)
        /\ last' = StoreCall("activateWorker", "p2", tier,
                             legacyActivateUpdates(3, tier, tier, sid, startTime), rt)
        /\ StoreUnchanged

LegacyDeactivateWorker ==
    LET rt == IF last.op = "store" THEN last.roundTrip ELSE <<>>
    IN  /\ workers' = legacyDeactivateWorker(workers, "p2", "dev")
        /\ last' = StoreCall("deactivateWorker", "p2", NoLevel,
                             legacyDeactivateUpdates(workers["p2"]["dev"]), rt)
        /\ StoreUnchanged

\* p1's dev worker starts idle with any stored sessions, p2's zero-valued
InitStore ==
    /\ \E ss \in [StoreLevels -> SessionRefs \cup {NoSession}] :
        workers = [p \in Projects |-> [r \in RoleSet |->
            IF p = "p1" /\ r = "dev"
            THEN [emptyWorkerState EXCEPT !.sessions = MergeSessions(NoSessions, ss)]
            ELSE IF p = "p2" /\ r = "dev" THEN legacyWorkerState
            ELSE emptyWorkerState]]
    /\ label = [t \in Tasks |-> "Planning"]
    /\ open = [t \in Tasks |-> TRUE]
    /\ fin = FinIdle
    /\ pk = PkIdle
    /\ last = LastNone
    /\ disk = DiskInit
    /\ sweeps = <<>>
    /\ scan = ScanIdle
    /\ cfg \in {c \in Configs : /\ c.projectExecution = "parallel"
                                /\ \A p \in Projects : c.roleExecution[p] = "parallel"}

NextStore ==
    \/ \E updates \in StoreUpdates : UpdateWorker(updates)
    \/ \E level \in StoreLevels, sessionKey \in SessionRefs \cup {NoSession} :
            ActivateWorker(level, sessionKey)
    \/ DeactivateWorker
    \/ \E tier \in StoreLevels, sid \in {<<"s1">>, NoSession} :
            LegacyActivateWorker(tier, sid)
    \/ LegacyDeactivateWorker

SpecStore == InitStore /\ [][NextStore]_vars

\* Two hours pass: a start time that was recent is now past the threshold
Age(p, role) ==
    /\ getWorker(workers, p, role).startTime = "now"
    /\ workers' = [workers EXCEPT ![p][role].startTime = "old"]
    /\ UNCHANGED <<label, open, fin, pk, last, cfg, disk, sweeps, scan>>

\* Live-session lists a caller hands over: none, one without any worker's
\* session, one holding the session of p1's dev worker on task 1
LiveLists == {{}, {<<"other">>}, {SessionKey("p1", "dev", resolveLevelForIssue(1, "dev"))}}

\* Scheduler, completions and the clock of one project under the health
\* reconciler and the heartbeat service
NextReconcile ==
    \/ Approve(1)
    \/ WorkerFinishes({"work_finish"}, {"p1"}, {<<"dev", "done">>})
    \/ ProjectTick("p1", Roles, NoMax, FALSE, RoleSet, {})
    \/ \E role \in RoleSet : Age("p1", role)
    \/ \E autoFix \in BOOLEAN, activeSessions \in LiveLists, providerOk \in BOOLEAN :
            SessionHealth(ProjectOrder, autoFix, activeSessions, providerOk)
    \/ HeartbeatService(ProjectOrder, HEARTBEAT_DEFAULTS.maxPickupsPerTick, AllPairs, {})

SpecReconcile == InitParallel /\ [][NextReconcile]_vars

\* The same system with the service's interval timer firing again and again
\* (setInterval, heartbeat.ts:72-78) and the clock advancing; nothing obliges a
\* dispatched worker to report back
\* Exceptions a sweep may meet: none, or one project's pass throwing in its
\* health stage or in its tick stage
Throwing == {{}} \cup {{<<p, stage>>} : p \in Projects, stage \in {"health", "tick"}}

\* Registration with either cross-project policy
InitSweep ==
    /\ Registered
    /\ cfg \in {c \in Configs : \A p \in Projects : c.roleExecution[p] = "parallel"}

\* Heartbeat sweeps over both projects, by the service and by the tool, under
\* any pickup budget and with passes that throw
NextSweep ==
    \/ \E p \in Projects : Approve(Min(TasksOf(p)))
    \/ WorkerFinishes({"work_finish"}, Projects, {<<"dev", "done">>})
    \/ \E maxPickupsPerTick \in Budgets \cup {HEARTBEAT_DEFAULTS.maxPickupsPerTick},
          throwing \in Throwing :
            HeartbeatService(ProjectOrder, maxPickupsPerTick, AllPairs, throwing)
    \/ \E maxPickups \in {1, NoMax}, throwing \in Throwing :
            WorkHeartbeat(ProjectOrder, FALSE, maxPickups, {}, AllPairs, TRUE, throwing)

SpecSweep == InitSweep /\ [][NextSweep]_vars

\* Scheduler, completions and the health reconciler of one project whose
\* projects.json is also written from outside: updateWorker called with the
\* partial { active: false } on the dev worker
NextDrift ==
    \/ \E t \in TasksOf("p1") : Approve(t)
    \/ WorkerFinishes({"work_finish"}, {"p1"}, {<<"dev", "done">>})
    \/ ProjectTick("p1", Roles, NoMax, FALSE, RoleSet, {})
    \/ UpdateWorker([active |-> FALSE])
    \/ \E autoFix \in BOOLEAN, activeSessions \in LiveLists, providerOk \in BOOLEAN :
            SessionHealth(ProjectOrder, autoFix, activeSessions, providerOk)

SpecDrift == InitParallel /\ [][NextDrift]_vars

SpecWatchdog ==
    /\ SpecReconcile
    /\ WF_vars(HeartbeatService(ProjectOrder, HEARTBEAT_DEFAULTS.maxPickupsPerTick, AllPairs, {}))
    /\ \A role \in RoleSet : WF_vars(Age("p1", role))

-----------------------------------------------------------------------------
(* Properties *)

\* Labels a role's completion rules lead to
RuleTargets(role) ==
    {getCompletionRule(DEFAULT_WORKFLOW, role, result).to :
        result \in {r \in Results : getCompletionRule(DEFAULT_WORKFLOW, role, r) # NoRule}}

\* C1: in every reachable state, intermediate states of a completion and
\* states after a failed label write included, no task already carries a
\* completion target label of a role while the store still shows that role's
\* worker active on that task.
C1_NoActiveWorkerOnCompletedTask ==
    \A p \in Projects, role \in RoleSet :
        LET worker == getWorker(workers, p, role)
        IN  worker.active /\ worker.issueId # NoIssue
                => label[worker.issueId] \notin RuleTargets(role)

\* C1 witness: a completion returned, its task carries rule.to and the worker
\* is shown inactive
C1_Witness ==
    /\ last.op = "completion" /\ last.pc = "returned"
    /\ label[last.issueId] = last.rule.to
    /\ ~getWorker(workers, last.p, last.role).active

\* C2: when the dispatch throws inside projectTick for a role, the pass commits
\* nothing for that role: the selected task keeps its queue label, the worker's
\* stored state is unchanged, the pickup counter is not incremented (it stays
\* the number of pickups made) and a skip 'Dispatch failed' is recorded.
C2_DispatchFailureCommitsNothing ==
    [][\A p \in Projects, okRoles \in SUBSET RoleSet :
        (last'.op = "projectTick" /\ last'.p = p
            /\ ProjectTick(p, Roles, NoMax, FALSE, okRoles, {})) =>
            LET skipped == last'.skipped
                pickups == last'.pickups
                Failed == {i \in DOMAIN skipped : skipped[i].reason = "Dispatch failed"}
                Attempted(role) ==
                    /\ ~getWorker(workers', p, role).active
                    /\ findNextIssueForRole(label', p, role, DEFAULT_WORKFLOW, {}) # NoNext
                    /\ ~(cfg.roleExecution[p] = "sequential"
                            /\ getWorker(workers', p, OtherRole(role)).active)
            IN  /\ projectTick(workers, label, p, Roles, cfg.roleExecution[p],
                               NoMax, FALSE, okRoles, {}).pickupCount = Len(pickups)
                /\ \A role \in RoleSet \ okRoles :
                        Attempted(role) => \E i \in Failed : skipped[i].role = role
                /\ \A i \in Failed :
                    LET role == skipped[i].role
                        t == skipped[i].issueId
                    IN  /\ role \notin okRoles
                        /\ workers'[p][role] = workers[p][role]
                        /\ label'[t] = label[t]
                        /\ label[t] \in {"To Do", "To Improve", "To Test"}
                        /\ \A j \in DOMAIN pickups : pickups[j].role # role]_vars

\* C2 witness: a pass recorded 'Dispatch failed' for a role; the task is still
\* queued and the role's worker idle
C2_Witness ==
    /\ last.op = "projectTick"
    /\ \E i \in DOMAIN last.skipped :
        /\ last.skipped[i].reason = "Dispatch failed"
        /\ label[last.skipped[i].issueId] = "To Do"
        /\ ~getWorker(workers, last.p, last.skipped[i].role).active

\* C3: a pickup call is atomic: when the projects.json update after the label
\* transition fails, the transition is rolled back, so the task does not stay
\* on the role's active label with no worker recorded on it.
C3_PickupRolledBack ==
    (last.op = "task_pickup" /\ last.pc = "threw" /\ last.error = "StateWrite")
        => label[last.issueId] # pickupTargetLabel(last.role)

\* C4 as claimed: executeCompletion on a task whose label is not rule.from
\* throws, and re-reading the worker afterwards shows it unchanged, still
\* active on the same task.
C4_WrongLabelLeavesWorkerActive ==
    (last.op = "completion" /\ last.pc = "threw" /\ last.error = "LabelMismatch")
        => LET worker == getWorker(workers, last.p, last.role)
           IN  worker.active /\ worker.issueId = last.issueId

\* C4 amended: executeCompletion on a task whose label is not rule.from throws,
\* and re-reading the worker afterwards shows it deactivated (active = false,
\* issueId = null): the deactivation ran before the label check.
C4_WrongLabelLeavesWorkerDeactivated ==
    (last.op = "completion" /\ last.pc = "threw" /\ last.error = "LabelMismatch")
        => LET worker == getWorker(workers, last.p, last.role)
           IN  ~worker.active /\ worker.issueId = NoIssue

\* C4 witness: dev reported done on a task labelled "To Test"; the call threw
C4_Witness ==
    /\ last.op = "completion" /\ last.pc = "threw" /\ last.error = "LabelMismatch"
    /\ last.tool = "executeCompletion" /\ last.role = "dev" /\ last.result = "done"
    /\ label[last.issueId] = "To Test"

NoRulePairs ==
    {<<"dev", "pass">>, <<"dev", "fail">>, <<"dev", "refine">>, <<"qa", "done">>}
        \cup ({"dev", "qa"} \X {"approve", "reject"})

\* C6: for every (role, result) the role's active state has no transition for,
\* getCompletionRule returns none and the completion call of an active worker
\* throws before any side effect: no source sync, no notification, no worker
\* deactivation, no label transition, no close / reopen.
C6_NoRuleNoSideEffect ==
    [][LET call == IF fin' # fin THEN fin' ELSE last'
       IN  (/\ FinFree /\ (fin' # fin \/ last' # last)
            /\ call.op = "completion"
            /\ <<call.role, call.result>> \in NoRulePairs
            /\ \E softFail \in {{}, SoftSteps}, issueOk \in BOOLEAN :
                CompletionCall(call.tool, call.p, call.role, call.result, softFail, issueOk))
           => /\ getCompletionRule(DEFAULT_WORKFLOW, call.role, call.result) = NoRule
              /\ last'.op = "completion" /\ last'.pc = "threw"
              /\ last'.error \in {"NoCompletionRule", "InvalidCompletion"}
              /\ last'.ran = {}
              /\ fin' = FinIdle
              /\ workers' = workers /\ label' = label /\ open' = open]_vars

\* C6 witness: executeCompletion threw for dev / pass; the worker is still
\* active on its task
C6_Witness ==
    /\ last.op = "completion" /\ last.pc = "threw" /\ last.error = "NoCompletionRule"
    /\ last.tool = "executeCompletion" /\ last.role = "dev" /\ last.result = "pass"
    /\ getWorker(workers, last.p, "dev").active
    /\ getWorker(workers, last.p, "dev").issueId = last.issueId

\* The completion table of the default workflow
ExpectedRule(role, result) ==
    CASE <<role, result>> = <<"dev", "done">> -> <<"Doing", "To Test", FALSE, FALSE>>
      [] <<role, result>> = <<"dev", "blocked">> -> <<"Doing", "Refining", FALSE, FALSE>>
      [] <<role, result>> = <<"qa", "pass">> -> <<"Testing", "Done", TRUE, FALSE>>
      [] <<role, result>> = <<"qa", "fail">> -> <<"Testing", "To Improve", FALSE, TRUE>>
      [] <<role, result>> = <<"qa", "refine">> -> <<"Testing", "Refining", FALSE, FALSE>>
      [] <<role, result>> = <<"qa", "blocked">> -> <<"Testing", "Refining", FALSE, FALSE>>

\* C7: for every (role, result) with a completion rule, a completion of an
\* active worker whose task carries rule.from ends with the task on rule.to,
\* the worker inactive with no issue id, the returned transition
\* "<from> -> <to>", the issue closed iff the transition lists closeIssue and
\* reopened iff it lists reopenIssue (dev / done on "Doing" gives "To Test").
C7_CompletionSucceeds ==
    [][\A providerOk \in BOOLEAN :
        (/\ CompletionTransition(providerOk)
         /\ providerOk
         /\ fin.tool \in {"work_finish", "executeCompletion"}
         /\ label[fin.issueId] = fin.rule.from)
        => LET worker == getWorker(workers', fin.p, fin.role)
               e == ExpectedRule(fin.role, fin.result)
           IN  /\ <<fin.role, fin.result>> \in ValidCalls
               /\ fin.rule.from = e[1] /\ fin.rule.to = e[2]
               /\ last'.pc = "returned"
               /\ label'[fin.issueId] = e[2]
               /\ ~worker.active /\ worker.issueId = NoIssue
               /\ last'.labelTransition = <<e[1], e[2]>>
               /\ last'.issueClosed = e[3] /\ last'.issueReopened = e[4]
               /\ e[3] => ~open'[fin.issueId]
               /\ e[4] => open'[fin.issueId]
               /\ ~e[3] /\ ~e[4] => open'[fin.issueId] = open[fin.issueId]]_vars

\* C7 witness: dev reported done on a task on "Doing": the task is on
\* "To Test", the worker idle, the returned transition Doing -> To Test
C7_Witness ==
    /\ last.op = "completion" /\ last.pc = "returned"
    /\ last.role = "dev" /\ last.result = "done"
    /\ last.labelTransition = <<"Doing", "To Test">>
    /\ label[last.issueId] = "To Test"
    /\ ~getWorker(workers, last.p, "dev").active
    /\ getWorker(workers, last.p, "dev").issueId = NoIssue

\* C8: in every reachable state of the store, for every project and role,
\* active = true implies a non-null issueId, under any sequence of activations,
\* deactivations, updates, completions and health auto-fixes.
C8_ActiveImpliesIssue ==
    \A p \in Projects, role \in RoleSet :
        getWorker(workers, p, role).active => getWorker(workers, p, role).issueId # NoIssue

\* C8 witness: the health reconciler has auto-fixed a worker while the other
\* role's worker is active on an issue
C8_Witness ==
    /\ last.op = "session_health" /\ last.autoFix
    /\ \E i \in DOMAIN last.findings : last.findings[i].fixed
    /\ \E role \in RoleSet :
        getWorker(workers, "p1", role).active /\ getWorker(workers, "p1", role).issueId # NoIssue

\* C9: with roleExecution = sequential, projectTick never dispatches a role
\* while the project's other role is active, also when that role was activated
\* earlier in the same pass (it records the skip "Sequential: other role
\* active"); so from a state with at most one of dev / qa active no sequence of
\* passes and completions reaches a state with both active.
C9_SequentialRoles ==
    /\ [](\A p \in Projects :
            cfg.roleExecution[p] = "sequential"
                => ~(getWorker(workers, p, "dev").active /\ getWorker(workers, p, "qa").active))
    /\ [][\A p \in Projects, okRoles \in SUBSET RoleSet :
            (cfg.roleExecution[p] = "sequential"
                /\ last'.op = "projectTick" /\ last'.p = p
                /\ ProjectTick(p, Roles, NoMax, FALSE, okRoles, {}))
            => LET Picked(role) == \E i \in DOMAIN last'.pickups : last'.pickups[i].role = role
                   SkippedSequential(role) ==
                        \E j \in DOMAIN last'.skipped :
                            /\ last'.skipped[j].role = role
                            /\ last'.skipped[j].reason = "Sequential: other role active"
               IN  /\ (~getWorker(workers, p, "dev").active
                            /\ getWorker(workers, p, "qa").active)
                        => ~Picked("dev") /\ SkippedSequential("dev")
                   /\ (~getWorker(workers, p, "qa").active
                            /\ (getWorker(workers, p, "dev").active \/ Picked("dev")))
                        => ~Picked("qa") /\ SkippedSequential("qa")]_vars

\* C9 witness: a sequential pass dispatched dev and, in the same pass, skipped
\* qa although a task waits in the qa queue
C9_Witness ==
    /\ cfg.roleExecution["p1"] = "sequential"
    /\ last.op = "projectTick"
    /\ \E i \in DOMAIN last.pickups : last.pickups[i].role = "dev"
    /\ \E j \in DOMAIN last.skipped :
        /\ last.skipped[j].role = "qa"
        /\ last.skipped[j].reason = "Sequential: other role active"
    /\ getWorker(workers, "p1", "dev").active
    /\ ~getWorker(workers, "p1", "qa").active
    /\ \E t \in TasksOf("p1") : label[t] = "To Test"

\* C10: with projectExecution = sequential only one project is active at a
\* time: from a state with at most one active project no heartbeat sweep, in
\* whatever order of projects, reaches a state where two projects each have an
\* active worker.
C10_OneProjectActive ==
    cfg.projectExecution = "sequential"
        => Cardinality({p \in Projects : ProjectActive(workers, p)}) <= 1

\* Pickups of a result that belong to the first k - 1 entries of order
PickupsBefore(pickups, order, k) ==
    Cardinality({i \in DOMAIN pickups : \E j \in 1..(k - 1) : pickups[i].p = order[j]})

\* C11: a projectTick called with maxPickups = N returns at most N pickups and
\* one heartbeat sweep (service or work_heartbeat) makes at most its per-cycle
\* budget of pickups in total; a role or project reached once the budget is
\* used up is not dispatched: no pickup, no dispatch attempt, its task labels
\* unchanged and no worker of it newly active.
C11_PickupBudget ==
    /\ []((last.op \in {"projectTick", "heartbeat"} /\ last.maxPickups # NoMax)
            => Len(last.pickups) <= last.maxPickups)
    /\ [][(last' # last /\ last'.op = "projectTick" /\ last'.maxPickups # NoMax) =>
            \A k \in 1..Len(Roles) :
                Cardinality({i \in DOMAIN last'.pickups :
                                \E j \in 1..(k - 1) : last'.pickups[i].role = Roles[j]})
                        >= last'.maxPickups
                => /\ \E i \in DOMAIN last'.skipped :
                        /\ last'.skipped[i].role = Roles[k]
                        /\ last'.skipped[i].reason = "Max pickups reached"
                   /\ \A i \in DOMAIN last'.pickups : last'.pickups[i].role # Roles[k]
                   /\ workers'[last'.p][Roles[k]] = workers[last'.p][Roles[k]]]_vars
    /\ [][(last' # last /\ last'.op = "heartbeat" /\ last'.maxPickups # NoMax) =>
            \A k \in 1..Len(last'.order) :
                PickupsBefore(last'.pickups, last'.order, k) >= last'.maxPickups
                => LET q == last'.order[k]
                   IN  /\ \A i \in 1..Len(last'.ticked) : last'.ticked[i] # q
                       /\ \A i \in DOMAIN last'.pickups : last'.pickups[i].p # q
                       /\ \A i \in DOMAIN last'.skipped :
                            last'.skipped[i].p = q
                                => last'.skipped[i].reason = "Max pickups reached"
                       /\ \A t \in TasksOf(q) : label'[t] = label[t]
                       /\ \A role \in RoleSet :
                            workers'[q][role].active => workers[q][role].active]_vars

\* C11 witness: a service sweep with a budget of one dispatched in the first
\* project and left the second project's queued task and idle worker alone
C11_Witness ==
    /\ last.op = "heartbeat" /\ last.kind = "service" /\ last.maxPickups = 1
    /\ Len(last.pickups) = 1 /\ last.pickups[1].p = "p1"
    /\ \E t \in TasksOf("p2") : label[t] = "To Do"
    /\ ~getWorker(workers, "p2", "dev").active

\* Some task of the project that last' reports on carries the queue label lbl
Queued(lbl) == listIssuesByLabel(label, last'.p, lbl) # {}

\* C12 as claimed: for an idle role projectTick dispatches from the
\* highest-priority queue label of the role that holds a task: whenever queue
\* labels A (higher priority) and B (lower) both hold tasks for the role, the
\* task dispatched carries A.
C12_HighestPriorityQueueFirst ==
    [][(last' # last /\ last'.op = "projectTick") =>
        \A role \in RoleSet :
            LET wf == DEFAULT_WORKFLOW
                Q == QueueIdx(wf, role)
                P == {i \in DOMAIN last'.pickups : last'.pickups[i].role = role}
            IN  /\ (~getWorker(workers, last'.p, role).active
                        /\ \E a \in Q : Queued(wf[a].label))
                    => P # {}
                /\ \A i \in P, a \in Q, b \in Q :
                        (/\ wf[a].priority > wf[b].priority
                         /\ Queued(wf[a].label) /\ Queued(wf[b].label))
                        => label[last'.pickups[i].issueId] = wf[a].label]_vars

\* C12 amended: projectTick walks the role's queue labels by descending
\* priority and skips a label whose listing throws: for an idle role it
\* dispatches from the first label that lists successfully and holds a task;
\* whenever A (higher) and B (lower) both hold tasks and the listing of A
\* succeeds, the task dispatched carries A or a label above A.
C12_HighestListedQueueFirst ==
    [][(last' # last /\ last'.op = "projectTick") =>
        \A role \in RoleSet :
            LET wf == DEFAULT_WORKFLOW
                Q == QueueIdx(wf, role)
                Listed(k) == Queued(wf[k].label) /\ wf[k].label \notin last'.listFail
                P == {i \in DOMAIN last'.pickups : last'.pickups[i].role = role}
            IN  /\ (~getWorker(workers, last'.p, role).active
                        /\ \E a \in Q : Listed(a))
                    => P # {}
                /\ \A i \in P :
                        \E a \in Q :
                            /\ Listed(a)
                            /\ label[last'.pickups[i].issueId] = wf[a].label
                            /\ \A c \in Q :
                                    wf[c].priority > wf[a].priority => ~Listed(c)]_vars

\* C12 witness: with every listing succeeding, a pass dispatched task 1 to dev
\* while task 2 stays on "To Do": the listing hands out the newest task of a
\* label, so task 1 was taken from "To Improve" ahead of the "To Do" queue
C12_Witness ==
    /\ last.op = "projectTick" /\ last.listFail = {}
    /\ \E i \in DOMAIN last.pickups :
            last.pickups[i].role = "dev" /\ last.pickups[i].issueId = 1
    /\ label[1] = "Doing" /\ label[2] = "To Do"
    /\ getWorker(workers, "p1", "dev").issueId = 1

\* C13: a pickup attempt for a role whose worker is already active changes
\* nothing: projectTick records the skip "Already active (#<issueId>)" for the
\* role, makes no dispatch call for it (no pickup, no dispatch failure) and
\* leaves the worker and the role's queued tasks as they were;
\* task_pickup throws before any label transition or state write.
C13_AlreadyActiveChangesNothing ==
    /\ [][(last' # last /\ last'.op = "projectTick") =>
            \A role \in RoleSet :
                LET worker == getWorker(workers, last'.p, role)
                    ForRole(seq) == {i \in DOMAIN seq : seq[i].role = role}
                IN  worker.active =>
                        /\ ForRole(last'.pickups) = {}
                        /\ Cardinality(ForRole(last'.skipped)) = 1
                        /\ \A i \in ForRole(last'.skipped) :
                                /\ last'.skipped[i].reason = "Already active"
                                /\ last'.skipped[i].issueId = worker.issueId
                        /\ getWorker(workers', last'.p, role) = worker
                        /\ \A t \in TasksOf(last'.p) :
                                label[t] \in validLabels(role) => label'[t] = label[t]]_vars
    /\ [][\A p \in Projects, role \in RoleSet, t \in Tasks, providerOk \in BOOLEAN :
            (getWorker(workers, p, role).active /\ TaskPickupCall(p, role, t, providerOk))
            => /\ last'.op = "task_pickup" /\ last'.pc = "threw"
               /\ last'.error = "AlreadyActive"
               /\ pk' = PkIdle
               /\ workers' = workers /\ label' = label /\ open' = open]_vars

\* C13 witness: dev is active on a task on "Doing" and the pass just made
\* skipped dev as already active on that task and dispatched nothing
C13_Witness ==
    /\ getWorker(workers, "p1", "dev").active
    /\ label[getWorker(workers, "p1", "dev").issueId] = "Doing"
    /\ last.op = "projectTick" /\ last.pickups = <<>>
    /\ \E i \in DOMAIN last.skipped :
            /\ last.skipped[i].role = "dev"
            /\ last.skipped[i].reason = "Already active"
            /\ last.skipped[i].issueId = getWorker(workers, "p1", "dev").issueId

\* C14: session-reuse law: for every level L and session reference S,
\* activate(level = L, sessionRef = S), then deactivate(), then
\* activate(level = L) without a session reference yields a worker whose
\* sessions[L] is S, from every stored worker state.
C14_SessionReuse ==
    /\ \A L \in Levels, S \in SessionRefs :
        LET s1 == activateWorker(workers, "p1", "dev", 1, L, S, "now")
            s2 == deactivateWorker(s1, "p1", "dev")
            s3 == activateWorker(s2, "p1", "dev", 2, L, NoSession, NoTime)
        IN  /\ getSessionForLevel(getWorker(s3, "p1", "dev"), L) = S
            /\ getWorker(s3, "p1", "dev").active
            /\ getWorker(s3, "p1", "dev").level = L
    /\ (last.op = "store" /\ Len(last.roundTrip) = 3 /\ last.roundTrip[3] = "reactivated")
        => getSessionForLevel(getWorker(workers, "p1", "dev"), last.roundTrip[1])
                = last.roundTrip[2]

\* C14 witness: the three calls were made for level senior and session s2 on a
\* worker that also holds a junior session; the worker is active on senior
\* with sessions[senior] = s2
C14_Witness ==
    /\ last.op = "store" /\ last.roundTrip = <<"senior", <<"s2">>, "reactivated">>
    /\ getWorker(workers, "p1", "dev").active
    /\ getWorker(workers, "p1", "dev").level = "senior"
    /\ getWorker(workers, "p1", "dev").sessions["senior"] = <<"s2">>
    /\ getWorker(workers, "p1", "dev").sessions["junior"] = <<"s1">>

\* C15: deactivateWorker sets active = false, issueId = null and startTime =
\* null and leaves the worker's sessions map and level exactly as they were,
\* for every prior worker state.
C15_DeactivateKeepsSessionsAndLevel ==
    [][(last' # last /\ last'.op = "store" /\ last'.fn = "deactivateWorker"
            /\ last'.p = "p1")
        => LET before == getWorker(workers, "p1", "dev")
               after == getWorker(workers', "p1", "dev")
           IN  /\ ~after.active /\ after.issueId = NoIssue /\ after.startTime = NoTime
               /\ after.sessions = before.sessions
               /\ after.level = before.level
               /\ workers' = [workers EXCEPT !["p1"]["dev"] = after]]_vars

\* C15 witness: a worker that was active on level senior with two stored
\* sessions has just been deactivated and still holds both and its level
C15_Witness ==
    /\ last.op = "store" /\ last.fn = "deactivateWorker" /\ last.p = "p1"
    /\ Len(last.roundTrip) = 3
    /\ ~getWorker(workers, "p1", "dev").active
    /\ getWorker(workers, "p1", "dev").level = "senior"
    /\ getWorker(workers, "p1", "dev").sessions["senior"] = <<"s1">>
    /\ getWorker(workers, "p1", "dev").sessions["junior"] = <<"s2">>

\* C16: updateWorker merges the sessions map key-wise (existing keys kept, new
\* values win) and replaces only the other fields present in the partial, in
\* both stores; so activateWorker with a session reference for level L leaves
\* sessions[K] unchanged for every other level K.
C16_SessionsMergedKeyWise ==
    [][(last' # last /\ last'.op = "store") =>
        LET before == workers[last'.p]["dev"]
            after == workers'[last'.p]["dev"]
            updates == last'.updates
            SessionOf(w, l) == IF last'.p = "p1" THEN getSessionForLevel(w, l)
                               ELSE getTierSession(w, l)
        IN  /\ \A f \in DOMAIN before \ {"sessions"} :
                    after[f] = IF f \in DOMAIN updates THEN updates[f] ELSE before[f]
            /\ \A l \in Levels :
                    SessionOf(after, l) =
                        IF "sessions" \in DOMAIN updates /\ l \in DOMAIN updates.sessions
                        THEN updates.sessions[l]
                        ELSE SessionOf(before, l)]_vars

\* Findings of the given type for (p, role) in a health result
FindingsOf(findings, type, p, role) ==
    {i \in DOMAIN findings :
        findings[i].type = type /\ findings[i].p = p /\ findings[i].role = role}

\* The label of the worker's task was moved from the role's active label back
\* to its queue label in this step
Reverted(p, role) ==
    LET t == getWorker(workers, p, role).issueId
    IN  /\ t # NoIssue
        /\ label[t] = getActiveLabel(DEFAULT_WORKFLOW, role)
        /\ label'[t] = getRevertLabel(DEFAULT_WORKFLOW, role)

\* An active worker with a session reference, as the store shows it
ActiveInSession(p, role) ==
    getWorker(workers, p, role).active /\ sessionId(getWorker(workers, p, role)) # NoSession

C18_ZombieFixed ==
    [][(last' # last /\ last'.op = "session_health" /\ last'.autoFix
            /\ last'.activeSessions # {}) =>
        LET Zombie(p, role) ==
                /\ ActiveInSession(p, role)
                /\ sessionId(getWorker(workers, p, role)) \notin last'.activeSessions
            Z == {z \in Projects \X RoleSet : Zombie(z[1], z[2])}
        IN  /\ last'.reverts = Cardinality(Z)
            /\ \A p \in Projects, role \in RoleSet :
                LET F == FindingsOf(last'.findings, "zombie_session", p, role)
                IN  IF Zombie(p, role)
                    THEN /\ Cardinality(F) = 1
                         /\ \A i \in F :
                                /\ last'.findings[i].fixed
                                /\ last'.findings[i].issueId = getWorker(workers, p, role).issueId
                                /\ last'.findings[i].labelReverted => Reverted(p, role)
                         /\ ~getWorker(workers', p, role).active
                         /\ getWorker(workers', p, role).issueId = NoIssue
                    ELSE F = {}]_vars

\* C18 witness: the dev worker's session was missing from the live list, the
\* revert of its task failed (the task is still on "Doing") and the worker
\* was deactivated all the same
C18_Witness ==
    /\ last.op = "session_health" /\ last.autoFix /\ last.activeSessions # {}
    /\ \E i \in DOMAIN last.findings :
            /\ last.findings[i].type = "zombie_session" /\ last.findings[i].role = "dev"
            /\ last.findings[i].fixed /\ ~last.findings[i].labelReverted
            /\ label[last.findings[i].issueId] = "Doing"
    /\ ~getWorker(workers, "p1", "dev").active
    /\ getWorker(workers, "p1", "dev").issueId = NoIssue

\* C19: after a zombie auto-fix the dead session reference is gone from the
\* worker's stored session references (every reference left is NoSession or
\* in the live list), so the next pickup of the worker spawns a session.
C19_DeadSessionRemoved ==
    (last.op = "session_health" /\ last.autoFix) =>
        \A i \in DOMAIN last.findings :
            (last.findings[i].type = "zombie_session" /\ last.findings[i].fixed) =>
                LET worker == getWorker(workers, last.findings[i].p, last.findings[i].role)
                IN  \A l \in Levels :
                        \/ getSessionForLevel(worker, l) = NoSession
                        \/ getSessionForLevel(worker, l) \in last.activeSessions

StaleActive(p, role) ==
    getWorker(workers, p, role).active /\ getWorker(workers, p, role).startTime = "old"

\* C21: stale worker watchdog: under repeated heartbeat sweeps a worker that
\* has been active for more than two hours does not stay so for ever: it is
\* eventually deactivated (its task's label reverted to the queue).
C21_StaleWorkerHandled ==
    \A p \in Projects, role \in RoleSet :
        StaleActive(p, role) ~> ~getWorker(workers, p, role).active

\* A worker the store shows inactive but still carrying an issue id
InactiveWithIssue(p, role) ==
    ~getWorker(workers, p, role).active /\ getWorker(workers, p, role).issueId # NoIssue

\* C22: for an inactive worker that still carries an issue id the reconciler
\* with auto-fix clears the issue id and nothing else (active, level,
\* startTime and sessions keep their values), reports one finding for it,
\* marked fixed, and attempts no label transition: every revert attempt of
\* the scan belongs to a zombie worker, and the task keeps its label unless
\* it is also the task of such a zombie worker.
C22_InactiveWithIssueCleared ==
    [][(last' # last /\ last'.op = "session_health" /\ last'.autoFix) =>
        \A p \in Projects, role \in RoleSet :
            LET worker == getWorker(workers, p, role)
                F == FindingsOf(last'.findings, "inactive_with_issue", p, role)
                Z == {z \in Projects \X RoleSet :
                        /\ ActiveInSession(z[1], z[2])
                        /\ last'.activeSessions # {}
                        /\ sessionId(getWorker(workers, z[1], z[2])) \notin last'.activeSessions}
            IN  InactiveWithIssue(p, role) =>
                    /\ getWorker(workers', p, role) = [worker EXCEPT !.issueId = NoIssue]
                    /\ Cardinality(F) = 1
                    /\ \A i \in F : /\ last'.findings[i].fixed
                                    /\ ~last'.findings[i].labelReverted
                                    /\ last'.findings[i].issueId = worker.issueId
                    /\ last'.reverts = Cardinality(Z)
                    /\ (\A z \in Z : getWorker(workers, z[1], z[2]).issueId # worker.issueId)
                            => label'[worker.issueId] = label[worker.issueId]]_vars

\* C22 witness: an auto-fixing scan cleared the issue id of the inactive dev
\* worker: level, start time and session reference are still there and the
\* task it carried is still on the active label
C22_Witness ==
    /\ last.op = "session_health" /\ last.autoFix
    /\ \E i \in DOMAIN last.findings :
            /\ last.findings[i].type = "inactive_with_issue" /\ last.findings[i].p = "p1"
            /\ last.findings[i].role = "dev" /\ last.findings[i].fixed
            /\ label[last.findings[i].issueId] = "Doing"
    /\ LET worker == getWorker(workers, "p1", "dev")
       IN  /\ ~worker.active /\ worker.issueId = NoIssue
           /\ worker.startTime = "now" /\ worker.level # NoLevel
           /\ sessionId(worker) # NoSession

\* The labels of the roles' active states
ActiveLabels == {getActiveLabel(DEFAULT_WORKFLOW, role) : role \in RoleSet}

\* C23: tasks never get stuck: under repeated heartbeat sweeps every task
\* that carries a role's active label eventually leaves it (for a queue, hold
\* or terminal label), whatever happened to its worker.
C23_NoTaskStuck ==
    \A t \in Tasks : (label[t] \in ActiveLabels) ~> (label[t] \notin ActiveLabels)

\* A heartbeat sweep in which neither the pickup budget nor the cross-project
\* policy held a project back
Unrestrained(hb) ==
    /\ hb.maxPickups = NoMax \/ Len(hb.pickups) < hb.maxPickups
    /\ cfg.projectExecution = "parallel"

InSeq(x, seq) == \E i \in DOMAIN seq : seq[i] = x

\* C24: an exception raised by one project's health pass or tick pass does
\* not abort the heartbeat sweep: every other project still receives its
\* health pass and its tick pass in that sweep.
C24_ExceptionDoesNotAbortSweep ==
    [][(last' # last /\ last'.op = "heartbeat" /\ last'.threw # NoThrow
            /\ Unrestrained(last')) =>
        \A i \in DOMAIN last'.order :
            last'.order[i] # last'.threw[1] =>
                /\ InSeq(last'.order[i], last'.healthChecked)
                /\ InSeq(last'.order[i], last'.ticked)]_vars

\* C25: in every heartbeat sweep the health reconciler runs for every
\* registered project, whether or not the pickup budget is exhausted and
\* whatever the cross-project policy.
C25_HealthForEveryProject ==
    [][(last' # last /\ last'.op = "heartbeat" /\ last'.threw = NoThrow) =>
        last'.healthChecked = last'.order]_vars

-----------------------------------------------------------------------------
(* The pipeline of the default workflow *)

\* Pickups by tool and by scheduler, every valid completion through both
\* tools, and health scans with and without fixes, on one project
NextPipeline ==
    \/ Approve(1)
    \/ WorkerFinishes({"work_finish", "task_complete"}, {"p1"}, ValidCalls)
    \/ ProjectTick("p1", Roles, NoMax, FALSE, RoleSet, {})
    \/ Pickup({"p1"})
    \/ \E autoFix \in BOOLEAN, activeSessions \in {{}, {<<"other">>}} :
            SessionHealth(ProjectOrder, autoFix, activeSessions, TRUE)

SpecPipeline == InitParallel /\ [][NextPipeline]_vars

\* C26: no step of the pipeline can be skipped: under pickups, completions
\* and health fixes a task's label becomes "Done" only by a tester's
\* completion with result pass, from "Testing"; it becomes "Testing" only
\* from "To Test", "To Test" only from "Doing" (or back from "Testing"), and
\* "Doing" only from a developer queue; so a task that starts in "Planning"
\* has carried "Doing" and then "To Test" before it carries "Testing".
C26_NoStepSkipped ==
    [][\A t \in Tasks :
        /\ (label'[t] = "Done" /\ label[t] # "Done") =>
                /\ label[t] = "Testing"
                /\ last'.op = "completion" /\ last'.pc = "returned"
                /\ last'.role = "qa" /\ last'.result = "pass"
                /\ last'.issueId = t
        /\ (label'[t] = "Testing" /\ label[t] # "Testing") => label[t] = "To Test"
        /\ (label'[t] = "To Test" /\ label[t] # "To Test") =>
                label[t] \in {"Doing", "Testing"}
        /\ (label'[t] = "Doing" /\ label[t] # "Doing") =>
                label[t] \in {"To Do", "To Improve"}
        /\ (label'[t] = "To Improve" /\ label[t] # "To Improve") =>
                label[t] = "Testing"]_vars

\* C26 witness: the tester's completion with result pass has just moved the
\* first task from "Testing" to "Done" and closed it
C26_Witness ==
    /\ label[1] = "Done" /\ ~open[1]
    /\ last.op = "completion" /\ last.pc = "returned"
    /\ last.role = "qa" /\ last.result = "pass" /\ last.issueId = 1

\* C27: a "blocked" result puts the task back in its role's queue: the
\* developer's completion with blocked moves the label from "Doing" to
\* "To Do", the tester's from "Testing" to "To Test".
C27_BlockedBackToQueue ==
    [][(last' # last /\ last'.op = "completion" /\ last'.pc = "returned"
            /\ last'.result = "blocked") =>
        /\ label[last'.issueId] = (IF last'.role = "dev" THEN "Doing" ELSE "Testing")
        /\ label'[last'.issueId] = (IF last'.role = "dev" THEN "To Do" ELSE "To Test")]_vars

\* COMPLETION_RULES[key], none for a key the table does not hold
TableRule(role, result) ==
    IF <<role, result>> \in DOMAIN COMPLETION_RULES
    THEN COMPLETION_RULES[<<role, result>>] ELSE NoRule

-----------------------------------------------------------------------------
(* Workflow graphs other than the default one *)

\* The ways a configured workflow departs from the default graph
Edits ==
    {"noActiveDev", "noActiveQa", "secondActiveDev", "secondActiveQa",
     "danglingComplete", "danglingPickup",
     "missingPriority", "equalPriority", "zeroPriorityQueue"}

Retarget(s, event, target) ==
    [s EXCEPT !.on = {IF tr.event = event THEN [tr EXCEPT !.target = target] ELSE tr
                        : tr \in s.on}]

EditState(s, E) ==
    IF s.key = "doing" /\ "danglingComplete" \in E THEN Retarget(s, "COMPLETE", "nowhere")
    ELSE IF s.key = "toTest" /\ "danglingPickup" \in E THEN Retarget(s, "PICKUP", "nowhere")
    ELSE IF s.key = "todo" /\ "missingPriority" \in E THEN [s EXCEPT !.priority = NoPriority]
    ELSE IF s.key = "toImprove" /\ "equalPriority" \in E THEN [s EXCEPT !.priority = 1]
    ELSE s

Kept(s, E) ==
    /\ ~(s.key = "doing" /\ "noActiveDev" \in E)
    /\ ~(s.key = "testing" /\ "noActiveQa" \in E)

Extra(E) ==
    (IF "secondActiveDev" \in E
     THEN <<St("fixing", "active", "dev", "Fixing", NoPriority,
               {Tr("COMPLETE", "toTest", {}), Tr("BLOCKED", "refining", {})})>>
     ELSE <<>>)
    \o (IF "secondActiveQa" \in E
        THEN <<St("reviewing", "active", "qa", "Reviewing", NoPriority,
                  {Tr("PASS", "done", {"closeIssue"}), Tr("FAIL", "toImprove", {})})>>
        ELSE <<>>)
    \o (IF "zeroPriorityQueue" \in E
        THEN <<St("toRework", "queue", "dev", "To Rework", 0, {Tr("PICKUP", "doing", {})})>>
        ELSE <<>>)

\* The default workflow with the edits E applied, in declaration order
EditedWorkflow(E) ==
    SelectSeq([i \in 1..Len(DEFAULT_WORKFLOW) |-> EditState(DEFAULT_WORKFLOW[i], E)],
              LAMBDA s : Kept(s, E)) \o Extra(E)

Workflows == {EditedWorkflow(E) : E \in SUBSET Edits}

\* loadWorkflow: the project's configuration carries its workflow
InitGraph ==
    /\ Registered
    /\ cfg \in [roleExecution : {[p \in Projects |-> "parallel"]},
                projectExecution : {"parallel"},
                workflow : Workflows]

\* The outcome of a call: the value it returned, or that it threw
Derived(op, role, result, value, threw) ==
    [op |-> op, role |-> role, result |-> result, value |-> value, threw |-> threw]

GetActiveLabel(role) ==
    /\ last' = Derived("getActiveLabel", role, "none", getActiveLabel(cfg.workflow, role),
                       getActiveLabel(cfg.workflow, role) = Throws)
    /\ UNCHANGED <<workers, label, open, fin, pk, cfg, disk, sweeps, scan>>

\* getActiveLabel's exception is caught inside: the call returns a rule or null
GetCompletionRule(role, result) ==
    /\ last' = Derived("getCompletionRule", role, result,
                       getCompletionRule(cfg.workflow, role, result), FALSE)
    /\ UNCHANGED <<workers, label, open, fin, pk, cfg, disk, sweeps, scan>>

GetRevertLabel(role) ==
    /\ last' = Derived("getRevertLabel", role, "none", getRevertLabel(cfg.workflow, role),
                       getRevertLabel(cfg.workflow, role) = Throws)
    /\ UNCHANGED <<workers, label, open, fin, pk, cfg, disk, sweeps, scan>>

GetQueueLabels(role) ==
    /\ last' = Derived("getQueueLabels", role, "none", getQueueLabels(cfg.workflow, role), FALSE)
    /\ UNCHANGED <<workers, label, open, fin, pk, cfg, disk, sweeps, scan>>

NextGraph ==
    \/ \E role \in RoleSet : GetActiveLabel(role)
    \/ \E role \in RoleSet : GetQueueLabels(role)
    \/ \E role \in RoleSet, result \in Results : GetCompletionRule(role, result)
    \/ \E role \in RoleSet : GetRevertLabel(role)

SpecGraph == InitGraph /\ [][NextGraph]_vars

\* C29: getActiveLabel returns the label of the role's sole active state, and
\* fails with a configuration error both when the workflow declares no active
\* state for the role and when it declares more than one.
C29_SoleActiveLabel ==
    last.op = "getActiveLabel" =>
        LET A == {i \in DOMAIN cfg.workflow :
                    cfg.workflow[i].type = "active" /\ cfg.workflow[i].role = last.role}
        IN  IF Cardinality(A) = 1
            THEN \A i \in A : last.value = cfg.workflow[i].label
            ELSE last.threw

\* The keys the workflow declares
DeclaredKeys(wf) == {wf[i].key : i \in DOMAIN wf}

\* C30: a malformed workflow graph fails fast at first use: deriving a
\* completion rule or a revert label for a role that has no active state, or
\* through a transition whose target is not a declared state, raises an
\* error; it yields neither "no rule" nor a default label.
C30_MalformedGraphFailsFast ==
    LET wf == cfg.workflow
        A == {i \in DOMAIN wf : wf[i].type = "active" /\ wf[i].role = last.role}
        Q == {i \in DOMAIN wf : wf[i].type = "queue" /\ wf[i].role = last.role}
    IN  /\ (/\ last.op = "getCompletionRule"
            /\ \/ A = {}
               \/ \E i \in A : \E tr \in wf[i].on :
                    /\ tr.event = resultToEvent(last.result)
                    /\ tr.target \notin DeclaredKeys(wf))
                => last.threw
        /\ (/\ last.op = "getRevertLabel"
            /\ \/ A = {}
               \/ \E i \in Q : \E tr \in wf[i].on :
                    tr.event = "PICKUP" /\ tr.target \notin DeclaredKeys(wf))
                => last.threw

\* C31: for every workflow and every role with at least one queue state,
\* getQueueLabels returns exactly the labels of the role's queue states, by
\* non-increasing priority (a missing priority counting as 0), states of
\* equal priority in their declaration order.
C31_QueueLabelsSorted ==
    last.op = "getQueueLabels" =>
        LET wf == cfg.workflow
            out == last.value
            Q == {i \in DOMAIN wf : wf[i].type = "queue" /\ wf[i].role = last.role}
            P(i) == IF wf[i].priority = NoPriority THEN 0 ELSE wf[i].priority
            At(k) == CHOOSE i \in Q : wf[i].label = out[k]
        IN  Q # {} =>
                /\ DOMAIN out = 1..Cardinality(Q)
                /\ {out[k] : k \in DOMAIN out} = {wf[i].label : i \in Q}
                /\ \A k, l \in DOMAIN out :
                        k < l => \/ P(At(k)) > P(At(l))
                                 \/ P(At(k)) = P(At(l)) /\ At(k) < At(l)

\* C31 witness: the developer's queue labels of a workflow whose "To Do"
\* state has no priority, with a later queue state of priority 0 and
\* "To Improve" first
C31_Witness ==
    /\ last.op = "getQueueLabels" /\ last.role = "dev"
    /\ last.value = <<"To Improve", "To Do", "To Rework">>
    /\ \E i \in DOMAIN cfg.workflow :
            cfg.workflow[i].key = "todo" /\ cfg.workflow[i].priority = NoPriority

-----------------------------------------------------------------------------
(* Atomic replacement of the state document *)

SpecDisk == InitParallel /\ [][NextDisk]_vars

\* C32: no read of the state document observes a partially written
\* document, under any interleaving of writeProjects calls (two overlapping
\* writers included) with readProjects calls: what a read gets is always one
\* whole serialised document.
C32_NoPartialRead ==
    last.op = "readProjects" => Parses(last.raw)

-----------------------------------------------------------------------------
(* Read-time migration of persisted documents *)

JNull == "null"
Undefined == "undefined"

\* An object is the sequence of its <<key, value>> entries, in insertion order
HasKey(obj, k) == \E i \in DOMAIN obj : obj[i][1] = k
Get(obj, k) ==
    IF HasKey(obj, k) THEN obj[CHOOSE i \in DOMAIN obj : obj[i][1] = k][2] ELSE Undefined
\* obj[k] = v
Put(obj, k, v) ==
    IF HasKey(obj, k)
    THEN [i \in DOMAIN obj |-> IF obj[i][1] = k THEN <<k, v>> ELSE obj[i]]
    ELSE Append(obj, <<k, v>>)
\* a ?? b, for the scalar values (all of them strings)
Nullish(a, b) == IF a \in {JNull, Undefined} THEN b ELSE a

\* Old role ids and their canonical ids (projects.ts:127)
ROLE_ALIASES == <<<<"dev", "developer">>, <<"qa", "tester">>>>

\* A table in which one alias leads to another alias
LEVEL_ALIASES_Chained ==
    <<<<"dev", <<<<"mid", "medior">>, <<"medior", "senior">>>>>>,
      <<"developer", <<<<"mid", "medior">>, <<"medior", "senior">>>>>>,
      <<"qa", <<<<"reviewer", "medior">>, <<"tester", "junior">>>>>>,
      <<"tester", <<<<"reviewer", "medior">>, <<"tester", "junior">>>>>>>>

\* Old level names and their canonical names, per role id (old and canonical)
LEVEL_ALIASES ==
    <<<<"dev", <<<<"mid", "medior">>>>>>,
      <<"developer", <<<<"mid", "medior">>>>>>,
      <<"qa", <<<<"reviewer", "medior">>, <<"tester", "junior">>>>>>,
      <<"tester", <<<<"reviewer", "medior">>, <<"tester", "junior">>>>>>>>

\* LEVEL_ALIASES[role], the empty table where there is none
AliasesOf(role) == IF HasKey(LEVEL_ALIASES, role) THEN Get(LEVEL_ALIASES, role) ELSE <<>>

migrateLevel(level, role) ==
    IF level \in {JNull, Undefined} THEN JNull
    ELSE Nullish(Get(AliasesOf(role), level), level)

RECURSIVE MigrateEntries(_, _, _)
MigrateEntries(entries, aliases, migrated) ==
    IF entries = <<>> THEN migrated
    ELSE MigrateEntries(Tail(entries), aliases,
            Put(migrated, Nullish(Get(aliases, Head(entries)[1]), Head(entries)[1]),
                Head(entries)[2]))

migrateSessions(sessions, role) ==
    IF ~HasKey(LEVEL_ALIASES, role) THEN sessions
    ELSE MigrateEntries(sessions, Get(LEVEL_ALIASES, role), <<>>)

parseWorkerState(worker, role) ==
    <<<<"active", Get(worker, "active")>>,
      <<"issueId", Get(worker, "issueId")>>,
      <<"startTime", Get(worker, "startTime")>>,
      <<"level", migrateLevel(Nullish(Nullish(Get(worker, "level"), Get(worker, "tier")), JNull), role)>>,
      <<"sessions", migrateSessions(IF HasKey(worker, "sessions") THEN Get(worker, "sessions")
                                     ELSE <<>>, role)>>>>

\* emptyWorkerState([]) as a document value
emptyWorkerJson ==
    <<<<"active", "false">>, <<"issueId", JNull>>, <<"startTime", JNull>>,
      <<"level", JNull>>, <<"sessions", <<>>>>>>

FlatRoles == <<"dev", "qa", "architect">>

RECURSIVE MigrateFlat(_, _, _)
MigrateFlat(raw, roles, out) ==
    IF roles = <<>> THEN out
    ELSE LET role == Head(roles)
             canonical == Nullish(Get(ROLE_ALIASES, role), role)
         IN  MigrateFlat(raw, Tail(roles),
                Put(out, canonical,
                    IF HasKey(raw, role) THEN parseWorkerState(Get(raw, role), role)
                    ELSE emptyWorkerJson))

RECURSIVE MigrateWorkers(_, _)
MigrateWorkers(entries, out) ==
    IF entries = <<>> THEN out
    ELSE LET role == Head(entries)[1]
             canonical == Nullish(Get(ROLE_ALIASES, role), role)
         IN  MigrateWorkers(Tail(entries),
                Put(out, canonical, parseWorkerState(Head(entries)[2], role)))

\* delete raw.dev; delete raw.qa; delete raw.architect
DeleteFlat(project) ==
    SelectSeq(project, LAMBDA e : e[1] \notin {"dev", "qa", "architect"})

\* The loop body of readProjects for one project of the parsed document
NormalizeProject(project) ==
    LET migrated ==
            IF ~HasKey(project, "workers")
                    /\ (HasKey(project, "dev") \/ HasKey(project, "qa")
                            \/ HasKey(project, "architect"))
            THEN DeleteFlat(Put(project, "workers", MigrateFlat(project, FlatRoles, <<>>)))
            ELSE IF HasKey(project, "workers")
            THEN Put(project, "workers", MigrateWorkers(Get(project, "workers"), <<>>))
            ELSE Put(project, "workers", <<>>)
    IN  IF ~HasKey(migrated, "channel") THEN Put(migrated, "channel", "telegram")
        ELSE migrated

\* Worker records as they are found in persisted documents
RawWorkers ==
    {<<<<"active", "true">>, <<"issueId", "1">>, <<"startTime", "t">>, <<"level", "mid">>,
       <<"sessions", <<<<"mid", "s1">>, <<"medior", JNull>>>>>>>>,
     <<<<"active", "false">>, <<"issueId", JNull>>, <<"tier", "reviewer">>>>,
     <<<<"active", "false">>, <<"issueId", JNull>>, <<"startTime", JNull>>,
       <<"level", "medior">>, <<"sessions", <<<<"medior", "s2">>>>>>>>,
     <<<<"level", JNull>>, <<"tier", "tester">>,
       <<"sessions", <<<<"tester", "s3">>, <<"junior", "s4">>>>>>>>,
     <<>>}

RoleKeys == {"dev", "developer", "qa", "tester"}

\* Legacy flat fields, a workers map of up to two entries, or neither; with
\* and without a channel
ProjectDocs ==
    LET Flat == {<<<<r, w>>>> : r \in {"dev", "qa", "architect"}, w \in RawWorkers}
                \cup {<<<<"dev", w>>, <<"qa", v>>>> : w, v \in RawWorkers}
        Maps == {<<>>} \cup {<<<<k, w>>>> : k \in RoleKeys, w \in RawWorkers}
                \cup {<<<<k, w>>, <<j, v>>>> :
                        k \in {"dev", "qa"}, j \in {"developer", "tester"},
                        w \in RawWorkers, v \in RawWorkers}
                \cup {<<<<"developer", w>>, <<"dev", v>>>> : w, v \in RawWorkers}
        Bodies == Flat \cup {<<<<"workers", m>>>> : m \in Maps} \cup {<<>>}
    IN  {<<<<"name", "p1">>>> \o b : b \in Bodies}
        \cup {<<<<"name", "p1">>, <<"channel", "slack">>>> \o b : b \in Bodies}

\* The document on disk is one of the persisted shapes
InitMigrate ==
    /\ Registered
    /\ cfg \in [roleExecution : {[p \in Projects |-> "parallel"]},
                projectExecution : {"parallel"},
                document : ProjectDocs]

\* readProjects returning the normalised document
ReadNormalized ==
    /\ last' = [op |-> "readProjects", data |-> NormalizeProject(cfg.document)]
    /\ UNCHANGED <<workers, label, open, fin, pk, cfg, disk, sweeps, scan>>

\* A mutator writing back what it read: the normalised document is persisted
WriteBack ==
    /\ last.op = "readProjects"
    /\ cfg' = [cfg EXCEPT !.document = last.data]
    /\ UNCHANGED <<workers, label, open, fin, pk, last, disk, sweeps, scan>>

NextMigrate == ReadNormalized \/ WriteBack

SpecMigrate == InitMigrate /\ [][NextMigrate]_vars

-----------------------------------------------------------------------------
(* Report-only modes *)

\* Ticks, sweeps and health scans with and without the report-only flag, and
\* the completions and approvals that give them something to report
NextReport ==
    \/ \E t \in {1, 2} : Approve(t)
    \/ WorkerFinishes({"work_finish"}, {"p1"}, {<<"dev", "done">>, <<"qa", "fail">>})
    \/ \E dryRun \in BOOLEAN : ProjectTick("p1", Roles, NoMax, dryRun, RoleSet, {})
    \/ \E dryRun \in BOOLEAN, activeSessions \in LiveLists :
            WorkHeartbeat(ProjectOrder, dryRun, NoMax, activeSessions, AllPairs, TRUE, {})
    \/ \E autoFix \in BOOLEAN, activeSessions \in LiveLists :
            SessionHealth(ProjectOrder, autoFix, activeSessions, TRUE)

SpecReport == InitParallel /\ [][NextReport]_vars

ReportOnly(call) ==
    \/ call.op = "projectTick" /\ call.dryRun
    \/ call.op = "heartbeat" /\ call.kind = "tool" /\ call.dryRun
    \/ call.op = "session_health" /\ ~call.autoFix

\* C34: report-only modes mutate nothing: projectTick and work_heartbeat with
\* dryRun = true and the health scan with fix = false write nothing to the
\* state store, move no label and dispatch nothing, whatever findings or
\* would-be pickups they report.
C34_ReportOnlyMutatesNothing ==
    [][(last' # last /\ ReportOnly(last')) =>
        /\ workers' = workers /\ label' = label /\ open' = open
        /\ fin' = fin /\ pk' = pk]_vars

\* C34 witness: a dry-run work_heartbeat that reported a health finding and a
\* would-be pickup: the worker it found is still active on its task and the
\* task it would pick up is still in the queue
C34_Witness ==
    /\ last.op = "heartbeat" /\ last.kind = "tool" /\ last.dryRun
    /\ last.healthFixes > 0
    /\ Len(last.pickups) > 0
    /\ \A i \in DOMAIN last.pickups :
            /\ label[last.pickups[i].issueId] \in {"To Do", "To Improve", "To Test"}
            /\ ~getWorker(workers, last.pickups[i].p, last.pickups[i].role).active
    /\ getWorker(workers, "p1", "dev").active

-----------------------------------------------------------------------------
(* The heartbeat service's interval *)

MaxSweeps == 2

\* setInterval's timer fires: the callback starts tick() whether or not an
\* earlier call of it is still awaiting
IntervalFires ==
    /\ Len(sweeps) < MaxSweeps
    /\ sweeps' = Append(sweeps, "started")
    /\ UNCHANGED <<workers, label, open, fin, pk, last, cfg, disk, scan>>

\* A started sweep runs its health and tick passes
SweepRuns(i) ==
    /\ i \in DOMAIN sweeps /\ sweeps[i] = "started"
    /\ tick(ProjectOrder, HEARTBEAT_DEFAULTS.maxPickupsPerTick, AllPairs, {})
    /\ sweeps' = [sweeps EXCEPT ![i] = "audit"]

\* tick() has written its audit entry and the callback returns
SweepReturns(i) ==
    /\ i \in DOMAIN sweeps /\ sweeps[i] = "audit"
    /\ sweeps' = [j \in 1..(Len(sweeps) - 1) |-> IF j < i THEN sweeps[j] ELSE sweeps[j + 1]]
    /\ UNCHANGED <<workers, label, open, fin, pk, last, cfg, disk, scan>>

\* The timer, the sweeps it starts, and the work the sweeps find
NextInterval ==
    \/ \E t \in {1, 2} : Approve(t)
    \/ WorkerFinishes({"work_finish"}, {"p1"}, {<<"dev", "done">>, <<"qa", "fail">>})
    \/ IntervalFires
    \/ \E i \in 1..MaxSweeps : SweepRuns(i)
    \/ \E i \in 1..MaxSweeps : SweepReturns(i)

SpecInterval == InitParallel /\ [][NextInterval]_vars

\* C35: at most one heartbeat sweep is in progress at any time: the service
\* starts no sweep while the previous one has not finished.
C35_OneSweepAtATime == Len(sweeps) <= 1

-----------------------------------------------------------------------------
(* Best-effort steps of the completion pipeline *)

\* C36: in executeCompletion a failure of a best-effort step (git pull, PR
\* URL detection, notification) is never escalated: the call goes on to the
\* worker deactivation and the label transition, and where it does throw the
\* cause is the issue lookup or the label transition itself.
C36_BestEffortNeverEscalated ==
    [][/\ \A tool \in {"work_finish", "executeCompletion"}, p \in Projects,
             role \in RoleSet, result \in Results :
            (/\ CompletionCall(tool, p, role, result, SoftSteps, TRUE)
             /\ getWorker(workers, p, role).active
             /\ getWorker(workers, p, role).issueId # NoIssue
             /\ TableRule(role, result) # NoRule)
                => /\ fin'.pc = "deactivate" /\ fin'.failed # {}
                   /\ fin'.rule = TableRule(role, result)
                   /\ last' = last
       /\ (fin.failed # {} /\ fin.pc = "deactivate" /\ fin' # fin)
                => /\ ~getWorker(workers', fin.p, fin.role).active
                   /\ fin' = [fin EXCEPT !.pc = "transition"]
       /\ \A providerOk \in BOOLEAN :
            (/\ fin.failed # {} /\ CompletionTransition(providerOk)
             /\ providerOk /\ label[fin.issueId] = fin.rule.from)
                => /\ last'.pc = "returned" /\ last'.failed = fin.failed
                   /\ label'[fin.issueId] = fin.rule.to
       /\ (last'.op = "completion" /\ last'.pc = "threw" /\ last' # last)
                => last'.error \in {"InvalidResult", "NotActive", "NoIssueId",
                                    "InvalidCompletion", "NoCompletionRule",
                                    "GetIssue", "TransitionFailed", "LabelMismatch"}]_vars

\* C36 witness: the developer's completion returned although git pull, PR
\* detection and the notification all failed: the task is on "To Test" and
\* the worker is inactive
C36_Witness ==
    /\ last.op = "completion" /\ last.pc = "returned" /\ last.tool = "executeCompletion"
    /\ last.role = "dev" /\ last.result = "done"
    /\ last.failed = {"gitPull", "detectPr", "notify"}
    /\ label[last.issueId] = "To Test"
    /\ ~getWorker(workers, last.p, "dev").active

-----------------------------------------------------------------------------
(* Health fixes and the tracker *)

\* C37: after a health auto-fix that deactivates a worker (active without a
\* session, or zombie) the worker's task is back on a queue label of the
\* role: no task keeps the role's active label with no active worker on it.
C37_DeactivatedTaskRequeued ==
    [][(last' # last /\ last'.op = "session_health" /\ last'.autoFix) =>
        \A p \in Projects, role \in RoleSet :
            LET worker == getWorker(workers, p, role)
            IN  (/\ worker.active /\ ~getWorker(workers', p, role).active
                 /\ worker.issueId # NoIssue
                 /\ label[worker.issueId] = getActiveLabel(DEFAULT_WORKFLOW, role))
                    => label'[worker.issueId] \in
                            {DEFAULT_WORKFLOW[i].label : i \in QueueIdx(DEFAULT_WORKFLOW, role)}]_vars

-----------------------------------------------------------------------------
(* One task at a time on a role's active label *)

\* The tasks of a project that carry the active label of a role
OnActiveLabel(p, role) ==
    {t \in TasksOf(p) : label[t] = getActiveLabel(DEFAULT_WORKFLOW, role)}

\* C38: in every reachable state, for each project and role, at most one
\* task carries the role's active label
C38_OneTaskPerActiveLabel ==
    \A p \in Projects, role \in RoleSet : Cardinality(OnActiveLabel(p, role)) <= 1

-----------------------------------------------------------------------------
(* The health scan between its awaits *)

\* Object.entries(data.projects) x ["dev", "qa"]: the order of the scan
ScanPairs == <<<<"p1", "dev">>, <<"p1", "qa">>, <<"p2", "dev">>, <<"p2", "qa">>>>

ScanProject == ScanPairs[scan.i][1]
ScanRole == ScanPairs[scan.i][2]
\* project[role] of the data read at the start of the scan
ScanWorker == scan.data[ScanProject][ScanRole]

\* The zombie fix of the pair under scan has a label revert to await
ScanReverts ==
    /\ scan.autoFix
    /\ ScanWorker.active
    /\ sessionId(ScanWorker) # NoSession
    /\ scan.activeSessions # {}
    /\ sessionId(ScanWorker) \notin scan.activeSessions
    /\ ScanWorker.issueId # NoIssue

\* The loop moves on to the next pair, or the tool returns its report
ScanAdvance(findings, reverts) ==
    IF scan.i = Len(ScanPairs)
    THEN /\ scan' = ScanIdle
         /\ last' = [op |-> "session_health", autoFix |-> scan.autoFix,
                     activeSessions |-> scan.activeSessions,
                     findings |-> findings, reverts |-> reverts]
    ELSE /\ scan' = [scan EXCEPT !.pc = "check", !.i = @ + 1,
                                 !.findings = findings, !.reverts = reverts]
         /\ UNCHANGED last

\* data = await readProjects(workspaceDir): the one read of the scan
ScanRead(autoFix, activeSessions) ==
    /\ scan.pc = "idle"
    /\ scan' = [pc |-> "check", i |-> 1, data |-> workers, autoFix |-> autoFix,
                activeSessions |-> activeSessions, findings |-> <<>>, reverts |-> 0,
                reverted |-> FALSE]
    /\ UNCHANGED <<workers, label, open, fin, pk, last, cfg, disk, sweeps>>

\* The checks of one pair that have at most one await, the updateWorker of
\* their fix: the worker tested is the one read at the start, the store
\* written is the current one
ScanPair ==
    /\ scan.pc = "check"
    /\ ~ScanReverts
    /\ \E r \in {checkWorkerHealth(
                    [workers |-> workers, label |-> label,
                     findings |-> scan.findings, reverts |-> scan.reverts],
                    ScanWorker, ScanProject, ScanRole,
                    scan.activeSessions, scan.autoFix, TRUE)} :
            /\ workers' = r.workers
            /\ label' = r.label
            /\ ScanAdvance(r.findings, r.reverts)
    /\ UNCHANGED <<open, fin, pk, cfg, disk, sweeps>>

\* Check 2 under autoFix, up to the end of its try block:
\* await transitionLabel(primaryIssueId, currentLabel, revertLabel)
ScanRevert(providerOk) ==
    /\ scan.pc = "check"
    /\ ScanReverts
    /\ LET ok == providerOk /\ canTransition(label, ScanWorker.issueId,
                                             healthCurrentLabel(ScanRole))
       IN  /\ label' = IF ok
                       THEN transitionLabel(label, ScanWorker.issueId,
                                healthCurrentLabel(ScanRole), healthRevertLabel(ScanRole))
                       ELSE label
           /\ scan' = [scan EXCEPT !.pc = "write", !.reverted = ok,
                                   !.reverts = @ + 1]
    /\ UNCHANGED <<workers, open, fin, pk, last, cfg, disk, sweeps>>

\* Check 2 under autoFix after its try block:
\* await updateWorker(workspaceDir, groupId, role, {active: false, issueId: null}),
\* then checks 3 and 4 on the worker read at the start
ScanWrite ==
    /\ scan.pc = "write"
    /\ \E r \in {CheckInactiveWithIssue(CheckStale(
                    [workers |-> updateWorker(workers, ScanProject, ScanRole,
                                    [active |-> FALSE, issueId |-> NoIssue]),
                     label |-> label,
                     findings |-> Append(scan.findings,
                                    Finding("zombie_session", ScanProject, ScanRole,
                                            ScanWorker.issueId, TRUE, scan.reverted)),
                     reverts |-> scan.reverts],
                    ScanWorker, ScanProject, ScanRole),
                    ScanWorker, ScanProject, ScanRole, scan.autoFix)} :
            /\ workers' = r.workers
            /\ ScanAdvance(r.findings, r.reverts)
    /\ UNCHANGED <<label, open, fin, pk, cfg, disk, sweeps>>

\* A project's scheduler and completions while a health scan is in flight
NextScan ==
    \/ \E t \in {1, 2} : Approve(t)
    \/ WorkerFinishes({"work_finish"}, {"p1"}, {<<"dev", "done">>})
    \/ ProjectTick("p1", Roles, NoMax, FALSE, RoleSet, {})
    \/ \E autoFix \in BOOLEAN, activeSessions \in {{}, {<<"other">>}} :
            ScanRead(autoFix, activeSessions)
    \/ ScanPair
    \/ \E providerOk \in BOOLEAN : ScanRevert(providerOk)
    \/ ScanWrite

SpecScan == InitParallel /\ [][NextScan]_vars

\* C39: a step of the scan that deactivates a worker finds that worker on
\* the task the scan read at its start
C39_FixActsOnDiagnosedState ==
    [][(scan.pc # "idle" /\ scan' # scan) =>
        \A p \in Projects, role \in RoleSet :
            LET worker == getWorker(workers, p, role)
            IN  (worker.active /\ ~getWorker(workers', p, role).active)
                    => worker.issueId = scan.data[p][role].issueId]_vars

-----------------------------------------------------------------------------
(* The counters work_heartbeat returns *)

\* C40: the globalState a non-dry-run work_heartbeat returns equals the
\* counts of the state store after the sweep: the swept projects with an
\* active worker, the active dev workers and the active qa workers
C40_GlobalStateAccurate ==
    [][(/\ last' # last
        /\ last'.op = "heartbeat" /\ last'.kind = "tool"
        /\ ~last'.dryRun /\ last'.threw = NoThrow)
            => last'.globalState = snapshotGlobalState(workers', last'.order)]_vars

====
